---- MODULE Spec2Model ----
(***************************************************************************)
(* A model of the ClockFace widget of clockface.py: its configuration      *)
(* store, the validated config / cget operations, the face redraw and the  *)
(* self-rescheduling refresh callback _tick.                               *)
(*                                                                         *)
(* Python values are records [kind, str, num]:                             *)
(*   kind  "str" | "int" | "float" | "bool" | "image" | "none"             *)
(*   str   the characters of a string, as a sequence of 1-character strings*)
(*   num   a number in tenths (300 is 3000, 0.5 is 5, True is 10), or the  *)
(*         identity of an image                                            *)
(*                                                                         *)
(* The specifications of the ClockFace share its state and its actions:    *)
(*   Spec        config calls of up to MaxEntries entries, and cget        *)
(*   SpecValues  config calls of one entry, over many values per option    *)
(*   SpecTick    _tick, the wall clock, and config calls between ticks     *)
(*   SpecHands   _get_hand_angles and _get_line_coords at sampled times    *)
(* The sizes given to config are ints (or bool, or of a wrong type).       *)
(*                                                                         *)
(* A model of the MoneyTimer of money_timer.py: its settings and history   *)
(* files, the default-settings table, the update callback and the pause    *)
(* and lunch events.  JSON values are records [kind, num, str, items, map]:*)
(*   kind   "null" | "bool" | "int" | "float" | "str" | "list" | "dict"    *)
(*   num    an int, a bool as 0 or 1, or a float in thousandths            *)
(*   items  the elements of a list, map the mapping of a dict              *)
(* Its specifications:                                                     *)
(*   SpecStartup  __init__, complete_setup, the history window, destroy,   *)
(*                over the contents of the two files                       *)
(*   SpecMoney    the running timer: update, pause, lunch events, settings *)
(*   SpecHistory  load_history over stored arrays of records               *)
(*   SpecParse    SettingsWindow.parse_time over strings                   *)
(*   SpecSettings the settings window: its entries and on_confirm_click    *)
(*   SpecSetup    the setup window: check_input and destroy                *)
(***************************************************************************)
EXTENDS Integers, Sequences, FiniteSets, TLC

VARIABLES
  configVars,  \* self._configVars : option name -> value
  bgImg,       \* self._bgImg      : an image value or None
  bgImgId,     \* self._bgImgId    : "None" or "item"
  canvas,      \* self._canvas     : what the Tk canvas is configured to and shows
  mid,         \* self._mid        (tenths of a pixel)
  hrLen,       \* self._hrLen      (tenths of a pixel)
  minLen,      \* self._minLen
  secLen,      \* self._secLen
  time,        \* self._time       : the sampled time, seconds since midnight
  ms,          \* self._ms         : the sub-second counter, in ms
  now,         \* the wall clock (localtime()), seconds since midnight
  pending,     \* the delays of the _tick callbacks pending in the event loop
  op,          \* the operation that ran last, with its inputs and its outcome
  applied,     \* per option, the value config applied last (None: never)
  prevTick,    \* the time sampled by the latest _tick
  mt,          \* the MoneyTimer object: its attributes
  DEFAULT_SETTINGS, \* MoneyTimer.DEFAULT_SETTINGS, the dict of the class
  disk,        \* the settings file and the history file
  events,      \* the MoneyTimer's callbacks pending in the event loop
  date         \* the date of localtime(): year, mon, mday, wday

vars == <<configVars, bgImg, bgImgId, canvas, mid, hrLen, minLen, secLen,
          time, ms, now, pending, op, applied, prevTick,
          mt, DEFAULT_SETTINGS, disk, events, date>>

\* the state of the ClockFace but for op, and the state of the MoneyTimer
faceVars == <<configVars, bgImg, bgImgId, canvas, mid, hrLen, minLen, secLen,
              time, ms, now, pending, applied, prevTick>>

moneyVars == <<mt, DEFAULT_SETTINGS, disk, events, date>>

----------------------------------------------------------------------------
(* Bounds *)

MaxEntries == 2      \* entries of one config call
StartTime  == 86398  \* the time of construction: 23:59:58
MaxElapsed == 3      \* seconds the wall clock moves on
MaxMs      == 1200   \* _tick runs while self._ms is at most this
MaxHalfSeconds == 4   \* update is called while self.secSoFar is less, in half seconds
MaxRecords == 2      \* records of a stored history
MaxChars   == 5      \* characters of the strings given to parse_time

----------------------------------------------------------------------------
(* Python values *)

PyStr(s)      == [kind |-> "str",   str |-> s,    num |-> 0]
PyInt(n)      == [kind |-> "int",   str |-> <<>>, num |-> n * 10]
PyFloat(t)    == [kind |-> "float", str |-> <<>>, num |-> t]
PyBool(b)     == [kind |-> "bool",  str |-> <<>>, num |-> IF b THEN 10 ELSE 0]
PhotoImage(i) == [kind |-> "image", str |-> <<>>, num |-> i]
None          == [kind |-> "none",  str |-> <<>>, num |-> 0]

\* isinstance(val, int) or isinstance(val, float): bool is a subclass of int
IsNumber(val) == val.kind \in {"int", "float", "bool"}

\* tick mark types and shape types
TICKS  == <<"T", "I", "C", "K", "S">>
ARABIC == <<"A", "R", "A", "B", "I", "C">>
ROMAN  == <<"R", "O", "M", "A", "N">>
SQUARE == <<"S", "Q", "U", "A", "R", "E">>
ROUND  == <<"R", "O", "U", "N", "D">>

DEFAULT_CONFIG ==
  [background  |-> PyStr(<<"#", "D", "D", "E", "E", "E", "E">>),
   handcolor   |-> PyStr(<<"#", "0", "0", "0", "0", "E", "E">>),
   markcolor   |-> PyStr(<<"#", "F", "F", "9", "9", "3", "3">>),
   marks       |-> PyStr(TICKS),
   shape       |-> PyStr(SQUARE),
   size        |-> PyInt(300),
   smooth      |-> PyBool(FALSE),
   wedge_size  |-> PyFloat(5),
   update_rate |-> PyInt(10)]

Options == DOMAIN DEFAULT_CONFIG

BG_COLOR_WITH_IMAGE == PyStr(<<"#", "0", "0", "0", "0", "0", "0">>)

\* _OFFSET = 3, in tenths of a pixel
OFFSET == 30

----------------------------------------------------------------------------
(* _valid_hex *)

\* str.lower() on one character
Lower(c) ==
  CASE c = "A" -> "a" [] c = "B" -> "b" [] c = "C" -> "c" [] c = "D" -> "d"
    [] c = "E" -> "e" [] c = "F" -> "f" [] c = "G" -> "g" [] c = "Z" -> "z"
    [] OTHER -> c

HexDigits == {"0", "1", "2", "3", "4", "5", "6", "7", "8", "9",
              "a", "b", "c", "d", "e", "f"}

valid_hex_nolower(hexString) ==
  /\ Len(hexString) = 7
  /\ hexString[1] = "#"
  /\ \A i \in 2..7 : hexString[i] \in HexDigits

valid_hex(hexString) ==
  /\ Len(hexString) = 7
  /\ hexString[1] = "#"
  /\ \A i \in 2..7 : Lower(hexString[i]) \in HexDigits

\* The colours Tk accepts in canvas.config(bg = val): a colour name or
\* '#' followed by 3, 6, 9 or 12 hexadecimal digits; anything else makes
\* the call raise TclError.
TkColorNames == {<<"r", "e", "d">>}

TkColor(s) ==
  \/ s \in TkColorNames
  \/ /\ Len(s) \in {4, 7, 10, 13}
     /\ s[1] = "#"
     /\ \A i \in 2..Len(s) : Lower(s[i]) \in HexDigits

----------------------------------------------------------------------------
(* The object: the fields of self gathered in one record, together with   *)
(* the bookkeeping of the running call (err: the exception raised, "" for *)
(* none; failedAt: the entry that raised; before: the value stored for    *)
(* that entry's option when the entry was reached; redraw: the local flag *)
(* of config; redraws / resizes: how often _init_face / _resize ran).     *)

Self ==
  [cv |-> configVars, bgImg |-> bgImg, bgImgId |-> bgImgId, canvas |-> canvas,
   mid |-> mid, hrLen |-> hrLen, minLen |-> minLen, secLen |-> secLen,
   time |-> time, ms |-> ms, applied |-> applied,
   redraw |-> FALSE, err |-> "", failedAt |-> 0, before |-> None,
   redraws |-> 0, resizes |-> 0]

Raise(s, e) == [s EXCEPT !.err = e]

\* self._configVars[option] = val
Store(s, option, val) ==
  [s EXCEPT !.cv = [@ EXCEPT ![option] = val],
            !.applied = [@ EXCEPT ![option] = val]]

\* canvas.delete("all")
DeleteAll(c) ==
  [c EXCEPT !.image = None, !.hasImage = FALSE, !.marks = None,
            !.markcolor = None, !.handcolor = None, !.hands = FALSE,
            !.handCoords = <<>>]

\* canvas.create_image(x, y, image = img): an item showing img (nothing when
\* img is None)
CreateImage(c, img) == [c EXCEPT !.image = img, !.hasImage = TRUE]

\* canvas.delete(self._bgImgId)
DeleteImage(c) == [c EXCEPT !.image = None, !.hasImage = FALSE]

----------------------------------------------------------------------------
(* The MoneyTimer: JSON values, the tables of the class, the object *)

JValue(k, n, s, i, m) ==
  [kind |-> k, num |-> n, str |-> s, items |-> i, map |-> m]

JNull     == JValue("null", 0, "", <<>>, <<>>)
JBool(b)  == JValue("bool", IF b THEN 1 ELSE 0, "", <<>>, <<>>)
JInt(n)   == JValue("int", n, "", <<>>, <<>>)
JFloat(n) == JValue("float", n, "", <<>>, <<>>)
JStr(s)   == JValue("str", 0, s, <<>>, <<>>)
JList(i)  == JValue("list", 0, "", i, <<>>)
JDict(m)  == JValue("dict", 0, "", <<>>, m)

\* MoneyTimer.PERCENT_EARN, in hundredths
PERCENT_EARN == 71

\* MoneyTimer.DAYS
DAYS == <<"Mon", "Tues", "Wed", "Thurs", "Fri", "Sat", "Sun">>

\* the keys of MoneyTimer.DEFAULT_SETTINGS, in the order of the dict
SETTINGS_KEYS ==
  <<"autoLunchEnabled", "autoLunchStartTime", "autoLunchStopTime",
    "hourlyRate", "Mon", "Tues", "Wed", "Thurs", "Fri", "Sat", "Sun">>

\* MoneyTimer.DEFAULT_SETTINGS as the class statement makes it
DEFAULT_SETTINGS_LITERAL ==
  [autoLunchEnabled   |-> JBool(FALSE),
   autoLunchStartTime |-> JList(<<JInt(12), JInt(0)>>),
   autoLunchStopTime  |-> JList(<<JInt(13), JInt(0)>>),
   hourlyRate         |-> JFloat(21500),
   Mon   |-> JFloat(8000),
   Tues  |-> JFloat(8000),
   Wed   |-> JFloat(8000),
   Thurs |-> JFloat(8000),
   Fri   |-> JFloat(8000),
   Sat   |-> JFloat(0),
   Sun   |-> JFloat(0)]

\* MoneyTimer.HISTORY_FORMAT: the keys in the order of the dict, and the
\* kinds isinstance accepts for each (a bool is an int)
HISTORY_KEYS ==
  <<"year", "mon", "day", "wday", "secSoFar", "earnings", "percent">>

HISTORY_FORMAT ==
  [year     |-> {"int", "bool"},
   mon      |-> {"int", "bool"},
   day      |-> {"int", "bool"},
   wday     |-> {"str"},
   secSoFar |-> {"float"},
   earnings |-> {"float"},
   percent  |-> {"float"}]

\* a file: absent (open raises), unparsable (json.loads raises), or the
\* JSON value json.loads returns
Absent       == [state |-> "absent", json |-> JNull]
Unparsable   == [state |-> "unparsable", json |-> JNull]
Stored(json) == [state |-> "json", json |-> json]

\* the variables of the entries of a settings window, while there is none:
\* the checkbox, the lunch times, the hourly rate and the goals of the DAYS
NoEntries ==
  [enabled |-> FALSE, start |-> <<>>, stop |-> <<>>, rate |-> <<>>,
   goals |-> [i \in 1..7 |-> <<>>]]

\* the attributes of a MoneyTimer before __init__ has run; entries and
\* labels are the entries of its settings window and the invalid labels the
\* window shows; an event
\* identifier of 0 is None, nextUpdate 0 is the attribute not being there,
\* as are startDay "" and startDate <<>>; secSoFar counts half seconds
\* SetupWindow.__init__: the entry is empty, the OK button has the state Tk
\* gives a new button, the invalid label is not packed; checked is the time
\* of the latest check_input, kept to state what secSoFar is counted from
SetupWindow_init ==
  [inputVar |-> <<>>, secSoFar |-> 0, okButton |-> "normal",
   invalidLabel |-> FALSE, checked |-> 0]

NoObject ==
  [exists |-> FALSE, settings |-> <<>>, isDefault |-> FALSE, paused |-> FALSE,
   settingsOpen |-> FALSE, historyOpen |-> FALSE, setupWindow |-> FALSE,
   startLunchEvt |-> 0, endLunchEvt |-> 0, nextUpdate |-> 0, secSoFar |-> 0,
   startDay |-> "", startDate |-> <<>>, todaysGoal |-> JNull,
   history |-> JNull, entries |-> NoEntries, labels |-> {},
   setup |-> SetupWindow_init]

\* no MoneyTimer is part of the program
NoMoneyTimer ==
  /\ mt = NoObject
  /\ DEFAULT_SETTINGS = DEFAULT_SETTINGS_LITERAL
  /\ disk = [settings |-> Absent, history |-> Absent]
  /\ events = {}
  /\ date = [year |-> 2016, mon |-> 7, mday |-> 4, wday |-> 0]

----------------------------------------------------------------------------
(* The hands: angles and line coordinates *)

\* Angles are whole numbers of 1/1,080,000 of a turn, so that _STEP_12,
\* _STEP_60 and every quotient of _get_hand_angles are exact.
TURN == 1080000
QUARTER == TURN \div 4

\* _STEP_12 = 2 * pi / 12 and _STEP_60 = 2 * pi / 60
STEP_12 == TURN \div 12
STEP_60 == TURN \div 60

\* the fields of a struct_time, the time of day being in seconds
tm_hour(t) == t \div 3600
tm_min(t) == (t \div 60) % 60
\* newTime.tm_sec of a time of day
tm_sec(t) == t % 60

\* _get_hand_angles: <<hrAng, minAng, secAng>>
get_hand_angles_24(s) ==
  LET hrAng  == STEP_12 * tm_hour(s.time)
                  + (STEP_12 * tm_min(s.time)) \div 60
                  + (STEP_12 * tm_sec(s.time)) \div 3600
      minAng == STEP_60 * tm_min(s.time) + (STEP_60 * tm_sec(s.time)) \div 60
      secAng == IF s.cv.smooth.num # 0
                  THEN STEP_60 * tm_sec(s.time) + (STEP_60 * s.ms) \div 1000
                  ELSE STEP_60 * tm_sec(s.time)
  IN <<hrAng, minAng, secAng>>

get_hand_angles(s) ==
  LET hrAng  == STEP_12 * (tm_hour(s.time) % 12)
                  + (STEP_12 * tm_min(s.time)) \div 60
                  + (STEP_12 * tm_sec(s.time)) \div 3600
      minAng == STEP_60 * tm_min(s.time) + (STEP_60 * tm_sec(s.time)) \div 60
      secAng == IF s.cv.smooth.num # 0
                  THEN STEP_60 * tm_sec(s.time) + (STEP_60 * s.ms) \div 1000
                  ELSE STEP_60 * tm_sec(s.time)
  IN <<hrAng, minAng, secAng>>

\* math.sin and math.cos, in thousandths, by Bhaskara's rational
\* approximation 16 x (180 - x) / (40500 - x (180 - x)) of the sine of x
\* degrees (exact at 0, 30, 90, 150 and 180 degrees, within 0.002 elsewhere),
\* x being taken in hundredths of a degree
SinScale == 30
sin(theta) ==
  LET a == theta % TURN
      x == (a % (2 * QUARTER)) \div SinScale
      p == (x * (18000 - x)) \div 1000
      v == (16000 * p) \div (1620000 - 4 * p)
  IN IF a >= 2 * QUARTER THEN 0 - v ELSE v

cos(theta) == sin(theta + QUARTER)

\* _get_components: lengths are in tenths of a pixel
get_components(mag, theta) ==
  <<(mag * sin(theta)) \div 1000, (mag * cos(theta)) \div 1000>>

\* _get_line_coords: <<x0, y0, x1, y1>>
get_line_coords_from_x_axis(x, y, mag, theta) ==
  LET d == get_components(mag, theta)
  IN <<x, y, x + d[2], y - d[1]>>

get_line_coords(x, y, mag, theta) ==
  LET d == get_components(mag, theta)
  IN <<x, y, x + d[1], y - d[2]>>

\* the segments _init_face and _tick compute for the hour, minute and second
\* hands, in that order
hand_coords(s) ==
  [i \in 1..3 |->
     get_line_coords(s.mid, s.mid, <<s.hrLen, s.minLen, s.secLen>>[i],
                     get_hand_angles(s)[i])]

\* canvas.create_line for the three hands, and canvas.coords on them: coords
\* on an item the canvas no longer has changes nothing
CreateHands(c, h) == [c EXCEPT !.hands = TRUE, !.handCoords = h]

MoveHands(c, h) == [c EXCEPT !.handCoords = IF c.hands THEN h ELSE @]

----------------
(* _init_face *)

\* raise ValueError("Unexpected value '{}' for 'marks' parameter.") is
\* recorded as "UnexpectedMarks"
init_face(s, t) ==
  LET c1 == CreateImage(DeleteAll(s.canvas), s.bgImg)
      s1 == [s EXCEPT !.bgImgId = "item",
                      !.mid    = (s.cv.size.num \div 2) + OFFSET,
                      !.hrLen  = (s.cv.size.num * 2) \div 10,
                      !.minLen = (s.cv.size.num * 3) \div 10,
                      !.secLen = (s.cv.size.num * 4) \div 10,
                      !.time   = t,
                      !.redraws = @ + 1]
  IN IF s.cv.marks.str \in {TICKS, ARABIC, ROMAN}
       THEN [s1 EXCEPT !.canvas =
               CreateHands([c1 EXCEPT !.marks = s.cv.marks,
                                      !.markcolor = s.cv.markcolor,
                                      !.handcolor = s.cv.handcolor,
                                      !.faceSize = s.cv.size],
                           hand_coords(s1))]
       ELSE Raise([s1 EXCEPT !.canvas = c1], "UnexpectedMarks")

(* _resize *)
resize_no_redraw(s, t) ==
  LET c1 == [DeleteAll(s.canvas) EXCEPT !.size = s.cv.size]
  IN [s EXCEPT !.canvas = CreateImage(c1, s.bgImg),
               !.mid = s.cv.size.num \div 2,
               !.bgImgId = "item",
               !.resizes = @ + 1]

resize(s, t) ==
  LET c1 == [DeleteAll(s.canvas) EXCEPT !.size = s.cv.size]
      s1 == [s EXCEPT !.canvas = CreateImage(c1, s.bgImg),
                      !.mid = s.cv.size.num \div 2,
                      !.bgImgId = "item",
                      !.resizes = @ + 1]
  IN init_face(s1, t)

----------------------------------------------------------------------------
(* config: one branch per option *)

\* key == "background" or key == "bg"
config_background(s, val) ==
  IF val.kind = "str"
    THEN LET s1 == IF s.bgImg # None
                     THEN [s EXCEPT !.canvas = DeleteImage(@),
                                    !.bgImg = None, !.bgImgId = "None"]
                     ELSE s
         IN IF TkColor(val.str)
              THEN Store([s1 EXCEPT !.canvas = [@ EXCEPT !.bg = val]],
                         "background", val)
              ELSE Raise(s1, "TclError")
  ELSE IF val.kind = "image"
    THEN LET c1 == [s.canvas EXCEPT !.bg = BG_COLOR_WITH_IMAGE]
             c2 == IF s.bgImgId # "None" THEN DeleteImage(c1) ELSE c1
         IN [s EXCEPT !.canvas = CreateImage(c2, val),
                      !.bgImg = val, !.bgImgId = "item",
                      !.applied = [@ EXCEPT !["background"] = val]]
  ELSE Raise(s, "TypeError")

config_handcolor_unchecked(s, val) ==
  IF val.kind = "str"
    THEN IF valid_hex(val.str)
           THEN [Store(s, "handcolor", val) EXCEPT !.redraw = TRUE]
           ELSE Raise(Store(s, "handcolor", val), "ValueError")
    ELSE Raise(s, "TypeError")

\* key == "handcolor"
config_handcolor(s, val) ==
  IF val.kind = "str"
    THEN IF valid_hex(val.str)
           THEN [Store(s, "handcolor", val) EXCEPT !.redraw = TRUE]
           ELSE Raise(s, "ValueError")
    ELSE Raise(s, "TypeError")

\* key == "markcolor" or key == "mk"
config_markcolor(s, val) ==
  IF val.kind = "str"
    THEN IF valid_hex(val.str)
           THEN [Store(s, "markcolor", val) EXCEPT !.redraw = TRUE]
           ELSE Raise(s, "ValueError")
    ELSE Raise(s, "TypeError")

\* key == "marks"
config_marks(s, val) ==
  IF val.kind = "str" /\ val.str \in {TICKS, ARABIC, ROMAN}
    THEN [Store(s, "marks", val) EXCEPT !.redraw = TRUE]
    ELSE Raise(s, "ValueError")

config_shape_silent(s, val) ==
  IF val.kind = "str" /\ val.str = SQUARE
    THEN Raise(s, "NotImplementedError")
  ELSE IF val.kind = "str" /\ val.str = ROUND
    THEN Store(s, "shape", val)
  ELSE Raise(s, "ValueError")

\* key == "shape"
config_shape(s, val) ==
  IF val.kind = "str" /\ val.str = SQUARE
    THEN Raise(s, "NotImplementedError")
  ELSE IF val.kind = "str" /\ val.str = ROUND
    THEN Raise(s, "NotImplementedError")
  ELSE Raise(s, "ValueError")

\* key == "size"
config_size(s, val, t) ==
  IF IsNumber(val)
    THEN resize(Store(s, "size", val), t)
    ELSE Raise(s, "TypeError")

\* key == "smooth"
config_smooth(s, val) ==
  IF val.kind = "bool"
    THEN Store(s, "smooth", val)
    ELSE Raise(s, "TypeError")

\* key == "wedge_size"
config_wedge_size(s, val) ==
  IF IsNumber(val)
    THEN IF val.num > 0 /\ val.num <= 10
           THEN Raise(s, "NotImplementedError")
           ELSE Raise(s, "ValueError")
    ELSE Raise(s, "TypeError")

config_update_rate_unchecked(s, val) ==
  IF IsNumber(val)
    THEN Store(s, "update_rate", val)
    ELSE Raise(s, "TypeError")

\* key == "update_rate"
config_update_rate(s, val) ==
  IF IsNumber(val)
    THEN IF val.num > 0
           THEN Store(s, "update_rate", val)
           ELSE Raise(s, "ValueError")
    ELSE Raise(s, "TypeError")

\* the option an entry of config is about ("" for an unrecognized key)
OptionOf(key) ==
  IF key = "bg" THEN "background"
  ELSE IF key = "mk" THEN "markcolor"
  ELSE IF key \in Options THEN key
  ELSE ""

config_entry_lenient(s, key, val, t) ==
  CASE key \in {"background", "bg"} -> config_background(s, val)
    [] key = "handcolor"            -> config_handcolor(s, val)
    [] key \in {"markcolor", "mk"}  -> config_markcolor(s, val)
    [] key = "marks"                -> config_marks(s, val)
    [] key = "shape"                -> config_shape(s, val)
    [] key = "size"                 -> config_size(s, val, t)
    [] key = "smooth"               -> config_smooth(s, val)
    [] key = "wedge_size"           -> config_wedge_size(s, val)
    [] key = "update_rate"          -> config_update_rate(s, val)
    [] OTHER                        -> s

\* the body of the loop of config: the keys of **kwargs are always strings,
\* so the isinstance(key, str) test never raises
config_entry(s, key, val, t) ==
  CASE key \in {"background", "bg"} -> config_background(s, val)
    [] key = "handcolor"            -> config_handcolor(s, val)
    [] key \in {"markcolor", "mk"}  -> config_markcolor(s, val)
    [] key = "marks"                -> config_marks(s, val)
    [] key = "shape"                -> config_shape(s, val)
    [] key = "size"                 -> config_size(s, val, t)
    [] key = "smooth"               -> config_smooth(s, val)
    [] key = "wedge_size"           -> config_wedge_size(s, val)
    [] key = "update_rate"          -> config_update_rate(s, val)
    [] OTHER                        -> Raise(s, "KeyError")

\* config(**kwargs): the entries in order, the first raise ends the call;
\* `if redraw: self._init_face()` runs only when the loop ran to its end
RECURSIVE config_from(_, _, _, _)
config_from(s, kwargs, i, t) ==
  IF i > Len(kwargs)
    THEN IF s.redraw THEN init_face(s, t) ELSE s
    ELSE LET s1 == config_entry(s, kwargs[i][1], kwargs[i][2], t)
         IN IF s1.err # ""
              THEN [s1 EXCEPT !.failedAt = i,
                              !.before = IF OptionOf(kwargs[i][1]) = "" THEN None
                                         ELSE s.cv[OptionOf(kwargs[i][1])]]
              ELSE config_from(s1, kwargs, i + 1, t)

config(s, kwargs, t) == config_from(s, kwargs, 1, t)

\* cget(key); key is [kind, name], kind "str" for a string key
cget(s, key) ==
  IF key.kind = "str"
    THEN IF key.name \in DOMAIN s.cv THEN [ret |-> s.cv[key.name], err |-> ""]
         ELSE IF key.name = "bg" THEN [ret |-> s.cv.background, err |-> ""]
         ELSE IF key.name = "mk" THEN [ret |-> s.cv.markcolor, err |-> ""]
         ELSE [ret |-> None, err |-> "KeyError"]
    ELSE [ret |-> None, err |-> "TypeError"]

----------------------------------------------------------------------------
(* _tick *)

\* 1000 // self._configVars["update_rate"], the rate being in tenths
Interval(s) == 10000 \div s.cv.update_rate.num

\* The delay handed to canvas.after: 1000 // update_rate is a float when
\* update_rate is one, and Tk's `after` takes an integer only (it raises
\* TclError: bad argument "400.0": must be cancel, idle, info, or an integer).
AfterAccepts(s) == s.cv.update_rate.kind # "float"

\* the body of _tick up to the call of canvas.after
tick(s, t) ==
  LET ms1 == IF tm_sec(t) # tm_sec(s.time) THEN 0 ELSE s.ms + Interval(s)
      s1  == [s EXCEPT !.ms = ms1, !.time = t]
  IN [s1 EXCEPT !.canvas = MoveHands(@, hand_coords(s1)),
                !.err = IF AfterAccepts(s) THEN @ ELSE "TclError"]

----------------------------------------------------------------------------
(* The state after construction, and the operations as actions *)

NoKey == [kind |-> "none", name |-> ""]

NoOp ==
  [name |-> "init", call |-> <<>>, key |-> NoKey, err |-> "", failedAt |-> 0,
   before |-> None, redraws |-> 0, resizes |-> 0, ret |-> None, delay |-> 0,
   moved |-> FALSE, geom |-> <<>>, angles |-> <<>>, args |-> <<>>,
   coords |-> <<>>, out |-> <<>>]

\* __init__ up to the call of config: the defaults copied, the canvas made
Fresh(t) ==
  [cv |-> DEFAULT_CONFIG, bgImg |-> None, bgImgId |-> "None",
   canvas |-> [bg |-> DEFAULT_CONFIG.background, size |-> DEFAULT_CONFIG.size,
               image |-> None, hasImage |-> FALSE, marks |-> None,
               markcolor |-> None, handcolor |-> None, faceSize |-> None,
               hands |-> FALSE, handCoords |-> <<>>],
   mid |-> (DEFAULT_CONFIG.size.num \div 2) + OFFSET,
   hrLen |-> 0, minLen |-> 0, secLen |-> 0,
   time |-> t, ms |-> 0, applied |-> [o \in Options |-> None],
   redraw |-> FALSE, err |-> "", failedAt |-> 0, before |-> None,
   redraws |-> 0, resizes |-> 0]

\* __init__(master, **kwargs): config, _init_face, _tick
\* (an exception in any of the three leaves no object)
Constructed(kwargs, t, t1) ==
  LET s1 == config(Fresh(t), kwargs, t)
      s2 == IF s1.err = "" THEN init_face(s1, t) ELSE s1
  IN IF s2.err = "" THEN tick(s2, t1) ELSE s2

Install(s) ==
  /\ configVars' = s.cv
  /\ bgImg' = s.bgImg
  /\ bgImgId' = s.bgImgId
  /\ canvas' = s.canvas
  /\ mid' = s.mid
  /\ hrLen' = s.hrLen
  /\ minLen' = s.minLen
  /\ secLen' = s.secLen
  /\ time' = s.time
  /\ ms' = s.ms
  /\ applied' = s.applied


Config(kwargs) ==
  LET s == config(Self, kwargs, now)
  IN /\ Install(s)
     /\ op' = [NoOp EXCEPT !.name = "config", !.call = kwargs, !.err = s.err,
                           !.failedAt = s.failedAt, !.before = s.before,
                           !.redraws = s.redraws, !.resizes = s.resizes]
     /\ UNCHANGED <<now, pending, prevTick>>
     /\ UNCHANGED moneyVars

Cget(key) ==
  /\ op' = [NoOp EXCEPT !.name = "cget", !.key = key,
                        !.ret = cget(Self, key).ret, !.err = cget(Self, key).err]
  /\ UNCHANGED faceVars
  /\ UNCHANGED moneyVars

\* the event loop runs the pending _tick callback
Tick ==
  /\ pending # <<>>
  /\ ms <= MaxMs
  /\ LET s == tick(Self, now)
     IN /\ Install(s)
        /\ pending' = IF s.err = "" THEN Tail(pending) \o <<Interval(s)>>
                                    ELSE Tail(pending)
        /\ op' = [NoOp EXCEPT !.name = "tick", !.err = s.err,
                              !.delay = Interval(s),
                              !.moved = canvas.hands,
                              !.geom = <<mid, hrLen, minLen, secLen>>]
  /\ prevTick' = now
  /\ UNCHANGED now
  /\ UNCHANGED moneyVars

\* the wall clock moves on by one second
AdvanceClock ==
  /\ (now + 24 * 3600 - StartTime) % (24 * 3600) < MaxElapsed
  /\ now' = (now + 1) % (24 * 3600)
  /\ op' = [NoOp EXCEPT !.name = "clock"]
  /\ UNCHANGED <<configVars, bgImg, bgImgId, canvas, mid, hrLen, minLen, secLen,
                 time, ms, pending, applied, prevTick>>
  /\ UNCHANGED moneyVars

----------------------------------------------------------------------------
(* The inputs *)

LowerHex == <<"#", "0", "0", "f", "f", "a", "9">>
MixedHex == <<"#", "a", "B", "c", "D", "e", "F">>
Red      == <<"r", "e", "d">>

\* strings that are no '#RRGGBB' colour
NonHexStrings ==
  { <<>>,
    <<"#", "0", "0", "f", "f", "a">>,
    <<"#", "0", "0", "f", "f", "a", "9", "9">>,
    <<"0", "0", "0", "f", "f", "a", "9">>,
    <<"#", "g", "0", "f", "f", "a", "9">>,
    <<"#", "0", "0", "f", "f", "a", "G">>,
    <<"#", "0", "0", "#", "f", "a", "9">>,
    <<"#", "0", "0", "f", " ", "a", "9">>,
    <<"#", "Z", "0", "f", "f", "a", "9">>,
    <<"#", "f", "f", "f">>,
    Red }

Entry(key, val) == <<key, val>>

\* the entries of the calls of several entries
MultiEntries ==
  { Entry("handcolor", PyStr(MixedHex)),
    Entry("handcolor", PyStr(Red)),
    Entry("marks", PyStr(ROMAN)),
    Entry("size", PyInt(0)),
    Entry("foo", PyInt(1)) }

\* further entries, of calls of one entry
SingleEntries ==
  { Entry("bg", PhotoImage(1)),
    Entry("background", PyStr(Red)),
    Entry("background", PyStr(<<"r", "e">>)),
    Entry("background", PyInt(5)),
    Entry("mk", PyStr(MixedHex)),
    Entry("markcolor", None),
    Entry("update_rate", PyInt(0)),
    Entry("shape", PyStr(ROUND)) }

\* **kwargs: the keys of one call are distinct
DistinctKeys(c) == \A i, j \in 1..Len(c) : i # j => c[i][1] # c[j][1]

RECURSIVE CallsUpTo(_)
CallsUpTo(n) ==
  IF n = 0 THEN {<<>>}
  ELSE LET shorter == CallsUpTo(n - 1)
       IN shorter \cup
          { Append(c, e) : c \in {x \in shorter : Len(x) = n - 1},
                           e \in MultiEntries }

Calls ==
  { <<e>> : e \in SingleEntries } \cup
  { c \in CallsUpTo(MaxEntries) : c # <<>> /\ DistinctKeys(c) }

CgetKeys ==
  { [kind |-> "str", name |-> n] :
      n \in {"background", "bg", "mk", "handcolor", "foo"} }
  \cup { [kind |-> "int", name |-> ""] }

\* the entries of the calls that probe the validation of one option
ValueEntries ==
     { Entry("handcolor", PyStr(x)) : x \in {LowerHex, MixedHex} \cup NonHexStrings }
  \cup { Entry(k, PyStr(x)) : k \in {"markcolor", "mk"},
                             x \in {MixedHex} \cup NonHexStrings }
  \cup { Entry(k, v) : k \in {"handcolor", "markcolor"},
                      v \in {PyInt(5), None, PhotoImage(1)} }
  \cup { Entry("marks", v) : v \in {PyStr(TICKS), PyStr(ARABIC), PyStr(ROMAN),
                                   PyStr(<<"T", "I", "C", "K">>), PyStr(SQUARE),
                                   PyInt(1), None} }
  \cup { Entry("shape", v) : v \in {PyStr(SQUARE), PyStr(ROUND), PyStr(TICKS),
                                   PyStr(<<>>), PyInt(1), None} }
  \cup { Entry("wedge_size", v) : v \in {PyFloat(5), PyFloat(1), PyInt(1), PyBool(TRUE),
                                        PyInt(0), PyFloat(11), PyInt(2), PyInt(0 - 1),
                                        PyBool(FALSE), PyStr(Red), None} }
  \cup { Entry("size", v) : v \in {PyInt(400), PyStr(Red)} }
  \cup { Entry("smooth", v) : v \in {PyBool(TRUE), PyInt(1)} }

ValueCalls == { <<e>> : e \in ValueEntries }

\* the calls made between the ticks
TickCalls ==
  { <<Entry("update_rate", PyInt(1))>>,
    <<Entry("update_rate", PyFloat(25))>>,
    <<Entry("smooth", PyBool(TRUE))>>,
    <<Entry("handcolor", PyStr(MixedHex))>>,
    <<Entry("size", PyInt(400))>> }

\* constructor calls, in the manner of the test suite at the end of
\* clockface.py
InitCalls ==
  { <<>>,
    <<Entry("bg", PhotoImage(1)), Entry("handcolor", PyStr(MixedHex)),
      Entry("marks", PyStr(ROMAN))>> }

\* the state after ClockFace(master, **kwargs), constructed at time t, the
\* first _tick sampling the clock at t1
Constructed_at(kwargs, t, t1) ==
  LET s == Constructed(kwargs, t, t1)
  IN /\ s.err = ""
     /\ configVars = s.cv
     /\ bgImg = s.bgImg
     /\ bgImgId = s.bgImgId
     /\ canvas = s.canvas
     /\ mid = s.mid
     /\ hrLen = s.hrLen
     /\ minLen = s.minLen
     /\ secLen = s.secLen
     /\ time = s.time
     /\ ms = s.ms
     /\ applied = s.applied
     /\ now = t1
     /\ pending = <<Interval(s)>>
     /\ op = NoOp
     /\ prevTick = t1

Init ==
  /\ \E kwargs \in InitCalls : Constructed_at(kwargs, StartTime, StartTime)
  /\ NoMoneyTimer

\* the second may change between _init_face and the first _tick
InitTick ==
  /\ \E t1 \in {StartTime, (StartTime + 1) % (24 * 3600)} :
       Constructed_at(<<>>, StartTime, t1)
  /\ NoMoneyTimer

\* config and cget on a constructed ClockFace
Next ==
  \/ \E kwargs \in Calls : Config(kwargs)
  \/ \E key \in CgetKeys : Cget(key)

Spec == Init /\ [][Next]_vars

\* the validation of single options
NextValues == \E kwargs \in ValueCalls : Config(kwargs)

SpecValues == Init /\ [][NextValues]_vars

\* the refresh loop, the clock, and config calls between the ticks
NextTick ==
  \/ Tick
  \/ AdvanceClock
  \/ \E kwargs \in TickCalls : Config(kwargs)

SpecTick == InitTick /\ [][NextTick]_vars

\* _get_hand_angles and _get_line_coords called on their own
GetHandAngles ==
  /\ op' = [NoOp EXCEPT !.name = "angles", !.angles = get_hand_angles(Self)]
  /\ UNCHANGED faceVars
  /\ UNCHANGED moneyVars

GetLineCoords(x, y, mag, theta) ==
  /\ op' = [NoOp EXCEPT !.name = "coords", !.args = <<x, y, mag, theta>>,
                        !.coords = get_line_coords(x, y, mag, theta)]
  /\ UNCHANGED faceVars
  /\ UNCHANGED moneyVars

\* time samples, as seconds of the day
HMS(h, m, sec) == h * 3600 + m * 60 + sec

SampleTimes ==
  {HMS(0, 0, 0), HMS(3, 0, 0), HMS(0, 30, 0), HMS(6, 0, 0), HMS(12, 0, 0),
   HMS(15, 0, 0), HMS(9, 15, 30), HMS(18, 45, 7), HMS(11, 59, 59),
   HMS(23, 59, 59)}

HandCalls ==
  {<<>>, <<Entry("smooth", PyBool(TRUE))>>,
   <<Entry("smooth", PyBool(TRUE)), Entry("update_rate", PyInt(3))>>}

\* centres and lengths in tenths of a pixel, and angles
SamplePoints == {0, 1530}
SampleLengths == {0, 1200}
SampleAngles ==
  {0, QUARTER, 2 * QUARTER, 3 * QUARTER, TURN \div 12, TURN \div 8,
   37 * STEP_60, TURN + QUARTER}

\* a clock constructed at a sampled time, the second having changed or not
\* between _init_face and the first _tick
InitHands ==
  /\ \E kwargs \in HandCalls, t1 \in SampleTimes :
       \E t \in {t1, (t1 + 24 * 3600 - 1) % (24 * 3600)} :
         Constructed_at(kwargs, t, t1)
  /\ NoMoneyTimer

NextHands ==
  \/ GetHandAngles
  \/ Tick
  \/ \E x \in SamplePoints, y \in SamplePoints, mag \in SampleLengths,
        theta \in SampleAngles : GetLineCoords(x, y, mag, theta)

SpecHands == InitHands /\ [][NextHands]_vars

----------------------------------------------------------------------------
(* The MoneyTimer: its methods *)

\* The object the methods act on, with the dict of the class, the event loop
\* and the exception a method has raised ("" when none).  self.settings is
\* obj.settings; when obj.isDefault it is the very dict of the class.
Mt == [obj |-> mt, defaults |-> DEFAULT_SETTINGS, events |-> events,
       err |-> ""]

MtRaise(m, e) == [m EXCEPT !.err = e]

\* d[key] = val on a dict
SetItem(d, key, val) ==
  [k \in (DOMAIN d) \cup {key} |-> IF k = key THEN val ELSE d[k]]

\* self.settings[key] = val
SetSetting(m, key, val) ==
  [m EXCEPT !.obj.settings = SetItem(@, key, val),
            !.defaults = IF m.obj.isDefault THEN SetItem(@, key, val) ELSE @]

\* the identifier Tk gives the next callback: one that no pending callback
\* has and that no attribute of the object still holds
UsedIds(m) ==
  {e.id : e \in m.events}
    \cup {m.obj.nextUpdate, m.obj.startLunchEvt, m.obj.endLunchEvt, 0}

NewId(m) ==
  CHOOSE n \in 1..Cardinality(UsedIds(m)) :
    /\ n \notin UsedIds(m)
    /\ \A k \in 1..(n - 1) : k \in UsedIds(m)

\* self.after(delay, fn) and self.after_cancel(id)
after(m, fn) == [m EXCEPT !.events = @ \cup {[id |-> NewId(m), fn |-> fn]}]

after_cancel(m, id) == [m EXCEPT !.events = {e \in @ : e.id # id}]

(* load_settings *)

\* the loop over DEFAULT_SETTINGS.keys(), from the i-th key on
RECURSIVE load_settings_from(_, _, _)
load_settings_from(temp, defaults, i) ==
  IF i > Len(SETTINGS_KEYS) THEN temp
  ELSE LET key == SETTINGS_KEYS[i]
       IN IF key \notin DOMAIN temp
            THEN load_settings_from(SetItem(temp, key, defaults[key]),
                                    defaults, i + 1)
          ELSE IF temp[key].kind # defaults[key].kind
            THEN load_settings_from(SetItem(temp, key, defaults[key]),
                                    defaults, i + 1)
          ELSE load_settings_from(temp, defaults, i + 1)

\* load_settings: the dict returned, and whether it is the dict of the class.
\* temp.keys() raises on a JSON value that is not an object.
load_settings_untyped(file, defaults) ==
  IF file.state = "json" /\ file.json.kind = "dict"
    THEN [ret |-> [k \in (DOMAIN file.json.map) \cup DOMAIN defaults |->
                     IF k \in DOMAIN file.json.map THEN file.json.map[k]
                                                   ELSE defaults[k]],
          isDefault |-> FALSE]
    ELSE [ret |-> defaults, isDefault |-> TRUE]

load_settings(file, defaults) ==
  IF file.state = "json" /\ file.json.kind = "dict"
    THEN [ret |-> load_settings_from(file.json.map, defaults, 1),
          isDefault |-> FALSE]
    ELSE [ret |-> defaults, isDefault |-> TRUE]

(* update, toggle_pause, auto_pause, auto_unpause *)

\* update: the texts of the label and of the progress bar are left out
update_no_reschedule(m) == [m EXCEPT !.obj.secSoFar = @ + 1]

update(m) ==
  LET m1 == [m EXCEPT !.obj.secSoFar = @ + 1]
  IN [after(m1, "update") EXCEPT !.obj.nextUpdate = NewId(m1)]

\* toggle_pause: self.nextUpdate raises AttributeError while update has
\* never run, and the except clause passes
toggle_pause_no_cancel(m) ==
  IF m.obj.paused
    THEN update([m EXCEPT !.obj.paused = FALSE])
  ELSE IF m.obj.nextUpdate = 0
    THEN m
  ELSE [m EXCEPT !.obj.paused = TRUE]

toggle_pause(m) ==
  IF m.obj.paused
    THEN update([m EXCEPT !.obj.paused = FALSE])
  ELSE IF m.obj.nextUpdate = 0
    THEN m
  ELSE [after_cancel(m, m.obj.nextUpdate) EXCEPT !.obj.paused = TRUE]

auto_pause(m) == IF ~m.obj.paused THEN toggle_pause(m) ELSE m

auto_unpause(m) == IF m.obj.paused THEN toggle_pause(m) ELSE m

(* make_lunch_events *)

\* hm[i] * unit for an element of a stored list: a number times an int is
\* a number, a str or a list times an int is a str or a list, anything else
\* raises TypeError; a list too short raises IndexError
Times(hm, i, unit) ==
  IF Len(hm.items) < i THEN [err |-> "IndexError", kind |-> "", n |-> 0]
  ELSE LET v == hm.items[i]
       IN CASE v.kind \in {"int", "bool"} ->
                 [err |-> "", kind |-> "int", n |-> v.num * unit]
            [] v.kind = "float" ->
                 [err |-> "", kind |-> "float", n |-> (v.num * unit) \div 1000]
            [] v.kind \in {"str", "list"} ->
                 [err |-> "", kind |-> v.kind, n |-> 0]
            [] OTHER -> [err |-> "TypeError", kind |-> "", n |-> 0]

\* hm[0] * 3600 + hm[1] * 60
DaySeconds(hm) ==
  LET a == Times(hm, 1, 3600)
      b == Times(hm, 2, 60)
  IN IF a.err # "" THEN a
     ELSE IF b.err # "" THEN b
     ELSE IF a.kind \in {"int", "float"} /\ b.kind \in {"int", "float"}
       THEN [err |-> "", n |-> a.n + b.n,
             kind |-> IF "float" \in {a.kind, b.kind} THEN "float" ELSE "int"]
     ELSE IF a.kind = b.kind THEN a
     ELSE [err |-> "TypeError", kind |-> "", n |-> 0]

\* one of the two branches of make_lunch_events: breakStart - ctSec raises
\* TypeError unless breakStart is a number, and Tk's after takes only an
\* integer delay.  The identifier of the new event is id (0 is None).
LunchEvent(m, break, t, fn) ==
  IF break.kind \notin {"int", "float"}
    THEN [m |-> MtRaise(m, "TypeError"), id |-> 0]
  ELSE IF break.n - t > 0
    THEN IF break.kind = "float"
           THEN [m |-> MtRaise(m, "TclError"), id |-> 0]
           ELSE [m |-> after(m, fn), id |-> NewId(m)]
  ELSE [m |-> m, id |-> 0]

\* make_lunch_events at the time of day t: the object, and the two
\* identifiers returned
make_lunch_events(m, t) ==
  LET breakStart == DaySeconds(m.obj.settings["autoLunchStartTime"])
      breakEnd   == DaySeconds(m.obj.settings["autoLunchStopTime"])
      s == LunchEvent(m, breakStart, t, "auto_pause")
      e == LunchEvent(s.m, breakEnd, t, "auto_unpause")
  IN IF breakStart.err # ""
       THEN [m |-> MtRaise(m, breakStart.err), start |-> 0, end |-> 0]
     ELSE IF breakEnd.err # ""
       THEN [m |-> MtRaise(m, breakEnd.err), start |-> 0, end |-> 0]
     ELSE IF s.m.err # ""
       THEN [m |-> s.m, start |-> 0, end |-> 0]
     ELSE [m |-> e.m, start |-> s.id, end |-> e.id]

(* __init__ *)

MoneyTimer_init(m, file, t) ==
  LET loaded == load_settings(file, m.defaults)
      m1 == [m EXCEPT !.obj = [NoObject EXCEPT !.exists = TRUE,
                                               !.settings = loaded.ret,
                                               !.isDefault = loaded.isDefault]]
      lunch == make_lunch_events(m1, t)
      m2 == IF m1.obj.settings["autoLunchEnabled"].num # 0
              THEN [lunch.m EXCEPT !.obj.startLunchEvt = lunch.start,
                                   !.obj.endLunchEvt = lunch.end]
              ELSE m1
  IN [m2 EXCEPT !.obj.setupWindow = TRUE]

(* load_history *)

\* v == n for a stored value and an int of localtime()
JEq(v, n) ==
  \/ v.kind \in {"int", "bool"} /\ v.num = n
  \/ v.kind = "float" /\ v.num = n * 1000

\* temp[i]["year"] == tm_year and temp[i]["mon"] == tm_mon and
\* temp[i]["day"] == tm_mday: "yes", "no", or "raises" when temp[i] is not
\* an object or lacks a key the test comes to
IsToday(rec, d) ==
  IF rec.kind # "dict" \/ "year" \notin DOMAIN rec.map THEN "raises"
  ELSE IF ~JEq(rec.map["year"], d.year) THEN "no"
  ELSE IF "mon" \notin DOMAIN rec.map THEN "raises"
  ELSE IF ~JEq(rec.map["mon"], d.mon) THEN "no"
  ELSE IF "day" \notin DOMAIN rec.map THEN "raises"
  ELSE IF JEq(rec.map["day"], d.mday) THEN "yes"
  ELSE "no"

\* the loop over HISTORY_FORMAT.keys(): TRUE when no isinstance test fails
\* and no key is missing
Validates(rec) ==
  \A i \in 1..Len(HISTORY_KEYS) :
    /\ HISTORY_KEYS[i] \in DOMAIN rec.map
    /\ rec.map[HISTORY_KEYS[i]].kind \in HISTORY_FORMAT[HISTORY_KEYS[i]]

\* del temp[i]
DelItem(items, i) ==
  [k \in 1..(Len(items) - 1) |-> IF k < i THEN items[k] ELSE items[k + 1]]

\* the loop of load_history from the i-th record on, toDel being 0 for None
RECURSIVE load_history_from(_, _, _, _)
load_history_from(items, d, i, toDel) ==
  IF i > Len(items)
    THEN IF toDel # 0 THEN DelItem(items, toDel) ELSE items
  ELSE CASE IsToday(items[i], d) = "raises" -> <<>>
         [] IsToday(items[i], d) = "yes" ->
              load_history_from(items, d, i + 1, i)
         [] OTHER ->
              IF Validates(items[i])
                THEN load_history_from(items, d, i + 1, toDel)
                ELSE <<>>

\* load_history on the date d: len(temp) raises on a number, a bool or
\* null, temp[0] raises on a non-empty object and temp[0]["year"] on a
\* non-empty string; an empty object or string is returned as it is
load_history(file, d) ==
  IF file.state # "json" THEN JList(<<>>)
  ELSE CASE file.json.kind = "list" ->
              JList(load_history_from(file.json.items, d, 1, 0))
         [] file.json.kind = "dict" /\ DOMAIN file.json.map = {} -> file.json
         [] file.json.kind = "str" /\ file.json.str = "" -> file.json
         [] OTHER -> JList(<<>>)

(* complete_setup *)

\* (entry["percent"] * 100 // 1) / 100: a float cut to hundredths
ClipPercent(v) ==
  CASE v.kind = "float" -> [err |-> "", val |-> JFloat((v.num \div 10) * 10)]
    [] v.kind \in {"int", "bool"} -> [err |-> "", val |-> JFloat(v.num * 1000)]
    [] OTHER -> [err |-> "TypeError", val |-> v]

\* for entry in self.history: entry["percent"] = ..., from the i-th entry on
RECURSIVE clip_percents(_, _)
clip_percents(items, i) ==
  IF i > Len(items) THEN [items |-> items, err |-> ""]
  ELSE IF "percent" \notin DOMAIN items[i].map
    THEN [items |-> items, err |-> "KeyError"]
  ELSE IF ClipPercent(items[i].map["percent"]).err # ""
    THEN [items |-> items, err |-> ClipPercent(items[i].map["percent"]).err]
  ELSE clip_percents(
         [items EXCEPT ![i].map["percent"] = ClipPercent(@).val], i + 1)

complete_setup(m, secSoFar, d, file) ==
  LET startDay == DAYS[d.wday + 1]
      history == load_history(file, d)
      clipped == clip_percents(history.items, 1)
      m1 == [m EXCEPT !.obj.secSoFar = secSoFar,
                      !.obj.startDay = startDay,
                      !.obj.startDate = <<d.year, d.mon, d.mday>>,
                      !.obj.todaysGoal = m.obj.settings[startDay],
                      !.obj.history = [history EXCEPT !.items = clipped.items]]
  IN IF clipped.err # "" THEN MtRaise(m1, clipped.err)
     ELSE [update(m1) EXCEPT !.obj.setupWindow = FALSE]

(* HistoryWindow.__init__ *)

IsNum(v) == v.kind \in {"int", "bool", "float"}

\* len(v) for a value that has one, -1 for one that has none
JLen(v) ==
  CASE v.kind = "list" -> Len(v.items)
    [] v.kind = "dict" -> Cardinality(DOMAIN v.map)
    [] OTHER -> -1

\* the exception the line of one entry raises, "" when none
RowError(entry) ==
  LET has(key) == key \in DOMAIN entry.map
      val(key) == entry.map[key]
  IN CASE ~has("mon") -> "KeyError"
       [] ~IsNum(val("mon")) -> "TypeError"
       [] ~has("day") -> "KeyError"
       [] ~IsNum(val("day")) -> "TypeError"
       [] ~has("wday") -> "KeyError"
       [] val("wday").kind # "str" /\ JLen(val("wday")) < 5 -> "TypeError"
       [] ~has("secSoFar") -> "KeyError"
       [] ~IsNum(val("secSoFar")) -> "TypeError"
       [] ~has("earnings") -> "KeyError"
       [] val("earnings").kind = "str" -> "ValueError"
       [] ~IsNum(val("earnings")) -> "TypeError"
       [] ~has("percent") -> "KeyError"
       [] val("percent").kind = "str" -> "ValueError"
       [] ~IsNum(val("percent")) -> "TypeError"
       [] OTHER -> ""

\* on_history_click: self.master.history raises AttributeError before
\* complete_setup has set it
on_history_click(m) ==
  IF m.obj.historyOpen THEN m
  ELSE IF m.obj.history.kind = "null" THEN MtRaise(m, "AttributeError")
  ELSE IF \E i \in 1..Len(m.obj.history.items) :
            RowError(m.obj.history.items[i]) # ""
    THEN MtRaise(m, RowError(m.obj.history.items[
           CHOOSE i \in 1..Len(m.obj.history.items) :
             /\ RowError(m.obj.history.items[i]) # ""
             /\ \A k \in 1..(i - 1) : RowError(m.obj.history.items[k]) = ""]))
  ELSE [m EXCEPT !.obj.historyOpen = TRUE]

(* The entries of the windows: str, int(), float(), parse_time *)

\* A str is the sequence of its characters.  The characters of the entries
\* are the digits, ':', '.', '+', '-', ' ' and letters other than those of
\* 'inf', 'nan' and an exponent; on such strings int() and float() are as
\* below.
DIGITS == <<"0", "1", "2", "3", "4", "5", "6", "7", "8", "9">>

IsDigit(c) == \E i \in 1..10 : DIGITS[i] = c

DigitValue(c) == (CHOOSE i \in 1..10 : DIGITS[i] = c) - 1

\* the number a string of digits denotes
RECURSIVE Decimal(_)
Decimal(d) ==
  IF d = <<>> THEN 0
  ELSE 10 * Decimal(SubSeq(d, 1, Len(d) - 1)) + DigitValue(d[Len(d)])

\* s.strip()
Strip(s) ==
  LET idx == {i \in 1..Len(s) : s[i] # " "}
  IN IF idx = {} THEN <<>>
     ELSE SubSeq(s, CHOOSE i \in idx : \A j \in idx : i <= j,
                    CHOOSE i \in idx : \A j \in idx : i >= j)

\* int(s): ok is FALSE where int raises ValueError
int(s) ==
  LET t      == Strip(s)
      signed == t # <<>> /\ t[1] \in {"+", "-"}
      d      == IF signed THEN Tail(t) ELSE t
  IN IF d = <<>> \/ \E i \in 1..Len(d) : ~IsDigit(d[i])
       THEN [ok |-> FALSE, val |-> 0]
     ELSE [ok |-> TRUE,
           val |-> IF signed /\ t[1] = "-" THEN 0 - Decimal(d) ELSE Decimal(d)]

\* SettingsWindow.parse_time: [intHr, intMin], or None
parse_time(s) ==
  LET hh == IF Len(s) = 5 THEN 2 ELSE 1
      hr == int(SubSeq(s, 1, hh))
      mn == int(SubSeq(s, hh + 2, Len(s)))
  IN IF ~(Len(s) \in {4, 5} /\ s[hh + 1] = ":") THEN JNull
     ELSE IF ~hr.ok \/ ~mn.ok THEN JNull
     ELSE IF hr.val < 0 \/ mn.val < 0 \/ mn.val > 60 THEN JNull
     ELSE JList(<<JInt(hr.val), JInt(mn.val)>>)

\* str(n) for an int
RECURSIVE IntStr(_)
IntStr(n) ==
  IF n < 0 THEN <<"-">> \o IntStr(0 - n)
  ELSE IF n < 10 THEN <<DIGITS[n + 1]>>
  ELSE IntStr(n \div 10) \o <<DIGITS[(n % 10) + 1]>>

\* str(x) for a float of t thousandths: the shortest digits that give x back
FloatStr(t) ==
  LET a == IF t < 0 THEN 0 - t ELSE t
      f == a % 1000
      frac == IF f % 100 = 0 THEN IntStr(f \div 100)
              ELSE IF f % 10 = 0
                THEN <<DIGITS[(f \div 100) + 1], DIGITS[((f \div 10) % 10) + 1]>>
              ELSE <<DIGITS[(f \div 100) + 1], DIGITS[((f \div 10) % 10) + 1],
                     DIGITS[(f % 10) + 1]>>
  IN (IF t < 0 THEN <<"-">> ELSE <<>>) \o IntStr(a \div 1000) \o <<".">> \o frac

\* str(v) for a stored number
str(v) ==
  CASE v.kind = "int" -> IntStr(v.num)
    [] v.kind = "float" -> FloatStr(v.num)
    [] v.kind = "bool" /\ v.num = 1 -> <<"T", "r", "u", "e">>
    [] OTHER -> <<"F", "a", "l", "s", "e">>

\* float(s), in thousandths: ok is FALSE where float raises ValueError; the
\* strings of the entries have at most three digits after the point
float(s) ==
  LET t      == Strip(s)
      signed == t # <<>> /\ t[1] \in {"+", "-"}
      d      == IF signed THEN Tail(t) ELSE t
      points == {i \in 1..Len(d) : d[i] = "."}
      p      == IF points = {} THEN Len(d) + 1 ELSE CHOOSE i \in points : TRUE
      whole  == SubSeq(d, 1, p - 1)
      frac   == SubSeq(d, p + 1, Len(d))
      digits == whole \o frac
      thou   == Decimal(whole) * 1000
                  + Decimal(SubSeq(frac \o <<"0", "0", "0">>, 1, 3))
  IN IF \/ Cardinality(points) > 1
        \/ digits = <<>>
        \/ \E i \in 1..Len(digits) : ~IsDigit(digits[i])
       THEN [ok |-> FALSE, val |-> 0]
     ELSE [ok |-> TRUE,
           val |-> IF signed /\ t[1] = "-" THEN 0 - thou ELSE thou]

(* The setup window *)

\* SetupWindow.check_input at the time t, the variable of the entry holding
\* what was written: the write of the clipped text inside the trace callback
\* does not run the callback again
check_input(w, t) ==
  LET s  == w.inputVar
      w1 == [w EXCEPT !.secSoFar = 0, !.okButton = "disabled", !.checked = t]
      hh == IF Len(s) = 5 THEN 2 ELSE 1
      intHr  == int(SubSeq(s, 1, hh))
      intMin == int(SubSeq(s, hh + 2, Len(s)))
      secSoFar == (tm_hour(t) - intHr.val) * 3600
                    + (tm_min(t) - intMin.val) * 60 + tm_sec(t)
  IN IF Len(s) > 5 THEN [w1 EXCEPT !.inputVar = SubSeq(s, 1, 5)]
     ELSE IF Len(s) = 0 THEN [w1 EXCEPT !.okButton = "normal"]
     ELSE IF ~(Len(s) \in {4, 5} /\ s[hh + 1] = ":") THEN w1
     ELSE IF ~intHr.ok \/ ~intMin.ok THEN w1
     ELSE IF intHr.val < 0 \/ intHr.val > 24 \/ intMin.val < 0 \/ intMin.val > 60
       THEN w1
     ELSE IF secSoFar < 0 THEN w1
     ELSE [w1 EXCEPT !.secSoFar = secSoFar, !.okButton = "normal"]

\* SetupWindow.destroy on the date d: secSoFar of the MoneyTimer counts half
\* seconds; the window is destroyed when complete_setup has returned
SetupWindow_destroy(m, d, file) ==
  IF m.obj.setup.okButton = "normal"
    THEN LET done == complete_setup(m, 2 * m.obj.setup.secSoFar, d, file)
         IN IF done.err # "" THEN done
            ELSE [done EXCEPT !.obj.setup = SetupWindow_init]
  ELSE [m EXCEPT !.obj.setup.invalidLabel = TRUE]

(* The settings window *)

\* SettingsWindow.load_settings: the variables of the entries, set from the
\* settings of the MoneyTimer.  The lunch times it is given have numbers as
\* elements (TimeError).
TimeStr(hm) ==
  LET minute == hm.items[2]
      ten    == IF minute.kind = "float" THEN 10000 ELSE 10
  IN str(hm.items[1]) \o <<":">> \o
       (IF minute.num >= ten THEN str(minute) ELSE <<"0">> \o str(minute))

SettingsWindow_load_settings(settings) ==
  [enabled |-> settings["autoLunchEnabled"].num # 0,
   start   |-> TimeStr(settings["autoLunchStartTime"]),
   stop    |-> TimeStr(settings["autoLunchStopTime"]),
   rate    |-> str(settings["hourlyRate"]),
   goals   |-> [i \in 1..Len(DAYS) |-> str(settings[DAYS[i]])]]

\* SettingsWindow.destroy
SettingsWindow_destroy(m) ==
  [m EXCEPT !.obj.settingsOpen = FALSE, !.obj.entries = NoEntries,
            !.obj.labels = {}]

(* on_settings_click, configure_settings *)

\* SettingsWindow.load_settings: time[1] >= 10 for a stored lunch time
TimeError(hm) ==
  IF Len(hm.items) < 2 THEN "IndexError"
  ELSE IF ~IsNum(hm.items[2]) THEN "TypeError"
  ELSE ""

on_settings_click(m) ==
  IF m.obj.settingsOpen THEN m
  ELSE IF TimeError(m.obj.settings["autoLunchStartTime"]) # ""
    THEN MtRaise(m, TimeError(m.obj.settings["autoLunchStartTime"]))
  ELSE IF TimeError(m.obj.settings["autoLunchStopTime"]) # ""
    THEN MtRaise(m, TimeError(m.obj.settings["autoLunchStopTime"]))
  ELSE [m EXCEPT !.obj.settingsOpen = TRUE,
                 !.obj.entries = SettingsWindow_load_settings(m.obj.settings)]

\* for key in cfg.keys(): self.settings[key] = cfg[key]
RECURSIVE store_config(_, _, _)
store_config(m, cfg, i) ==
  IF i > Len(cfg) THEN m
  ELSE store_config(SetSetting(m, cfg[i][1], cfg[i][2]), cfg, i + 1)

\* configure_settings at the time of day t, and the destroy of the settings
\* window that follows it in on_confirm_click; self.startDay raises
\* AttributeError before complete_setup has set it
configure_settings(m, cfg, t) ==
  LET m1 == store_config(m, cfg, 1)
      m2 == [m1 EXCEPT !.obj.todaysGoal = m1.obj.settings[m1.obj.startDay]]
      m3 == after_cancel(after_cancel(m2, m2.obj.startLunchEvt),
                         m2.obj.endLunchEvt)
      lunch == make_lunch_events(m3, t)
  IN IF m1.obj.startDay = "" THEN MtRaise(m1, "AttributeError")
     ELSE IF m2.obj.settings["autoLunchEnabled"].num = 0
       THEN SettingsWindow_destroy(m2)
     ELSE IF lunch.m.err # "" THEN lunch.m
     ELSE SettingsWindow_destroy(
            [lunch.m EXCEPT !.obj.startLunchEvt = lunch.start,
                            !.obj.endLunchEvt = lunch.end])

(* SettingsWindow.on_confirm_click *)

\* float(s) of an entry that is not empty, 0.0 for an empty one
EntryFloat(s) == IF s = <<>> THEN [ok |-> TRUE, val |-> 0] ELSE float(s)

\* what on_confirm_click reads from the entries e: the checkbox, the lunch
\* times parsed, the hourly rate and the goals as floats
ParsedEntries(e) ==
  [enabled |-> e.enabled,
   start   |-> parse_time(e.start),
   stop    |-> parse_time(e.stop),
   rate    |-> EntryFloat(e.rate),
   goals   |-> [i \in 1..Len(DAYS) |-> EntryFloat(e.goals[i])]]

\* on_confirm_click on the parsed entries p, at the time of day t:
\* ret["autoLunchStopTime"] raises KeyError when a lunch time has not been
\* parsed; ret is given to configure_settings when no entry is invalid
confirm(m, p, t) ==
  LET netTime == (p.stop.items[1].num - p.start.items[1].num) * 60
                   + p.stop.items[2].num - p.start.items[2].num
      ret     == <<<<"autoLunchEnabled", JBool(p.enabled)>>>>
                   \o (IF p.enabled
                         THEN <<<<"autoLunchStartTime", p.start>>,
                                <<"autoLunchStopTime", p.stop>>>>
                         ELSE <<>>)
                   \o <<<<"hourlyRate", JFloat(p.rate.val)>>>>
                   \o [i \in 1..Len(DAYS) |-> <<DAYS[i], JFloat(p.goals[i].val)>>]
      labels  == (IF p.enabled /\ netTime <= 0 THEN {"autoLunchBreak"} ELSE {})
                   \cup (IF p.rate.ok THEN {} ELSE {"hourlyRate"})
                   \cup (IF \A i \in 1..Len(DAYS) : p.goals[i].ok
                           THEN {} ELSE {"goals"})
  IN IF p.enabled /\ (p.start = JNull \/ p.stop = JNull)
       THEN MtRaise([m EXCEPT !.obj.labels = {"autoLunchBreak"}], "KeyError")
     ELSE IF labels # {} THEN [m EXCEPT !.obj.labels = labels]
     ELSE CHOOSE r \in {configure_settings([m EXCEPT !.obj.labels = {}], c, t) :
                          c \in {ret}} : TRUE

on_confirm_click(m, t) ==
  CHOOSE r \in {confirm(m, p, t) : p \in {ParsedEntries(m.obj.entries)}} : TRUE

(* save_settings, save_history, destroy *)

\* save_settings: json.dumps(self.settings) written to the settings file
save_settings(m, dsk) == [dsk EXCEPT !.settings = Stored(JDict(m.obj.settings))]

\* earnings cut to cents, in thousandths: secSoFar / 3600 * hourlyRate *
\* PERCENT_EARN, secSoFar being h half seconds and the rate r thousandths
Earnings(h, r) == ((h * r * PERCENT_EARN) \div 7200000) * 10

\* (pct * 10000 // 1) / 100 in thousandths: pct is secSoFar / (todaysGoal *
\* 3600), or 1.0 for a goal of 0; the goal g is in thousandths of an hour
Percent(h, g) == IF g = 0 THEN 100000 ELSE ((h * 100000) \div (72 * g)) * 10

\* currentDayStats
currentDayStats(o) ==
  JDict([year     |-> JInt(o.startDate[1]),
         mon      |-> JInt(o.startDate[2]),
         day      |-> JInt(o.startDate[3]),
         wday     |-> JStr(o.startDay),
         secSoFar |-> JFloat(o.secSoFar * 500),
         earnings |-> JFloat(Earnings(o.secSoFar, o.settings["hourlyRate"].num)),
         percent  |-> JFloat(Percent(o.secSoFar, o.todaysGoal.num))])

\* save_history: self.todaysGoal raises AttributeError before complete_setup
\* has set it, and self.history.insert raises it on a history that is not a
\* list; the result is the object and the files
save_history(m, dsk) ==
  IF m.obj.todaysGoal.kind = "null" \/ m.obj.history.kind # "list"
    THEN [m |-> MtRaise(m, "AttributeError"), disk |-> dsk]
  ELSE LET h == JList(<<currentDayStats(m.obj)>> \o m.obj.history.items)
       IN [m |-> [m EXCEPT !.obj.history = h],
           disk |-> [dsk EXCEPT !.history = Stored(h)]]

\* destroy: super().destroy() is reached when neither save has raised
destroy(m, dsk) ==
  LET saved == save_history(m, save_settings(m, dsk))
  IN IF saved.m.err # "" THEN saved
     ELSE [saved EXCEPT !.m.obj.exists = FALSE]

----------------------------------------------------------------------------
(* The MoneyTimer: the operations as actions *)

InstallMt(m) ==
  /\ mt' = m.obj
  /\ DEFAULT_SETTINGS' = m.defaults
  /\ events' = m.events

\* mt = MoneyTimer(root) in main: an exception ends the program
Construct ==
  /\ ~mt.exists
  /\ op.name = "init"
  /\ LET m == MoneyTimer_init(Mt, disk.settings, now)
     IN /\ InstallMt(IF m.err = "" THEN m ELSE Mt)
        /\ op' = [NoOp EXCEPT
                    !.name = "__init__", !.err = m.err,
                    !.out = <<load_settings(disk.settings, DEFAULT_SETTINGS).ret>>]
  /\ UNCHANGED <<faceVars, disk, date>>

\* the setup window is closed on a valid entry: SetupWindow.destroy calls
\* complete_setup(secSoFar)
CompleteSetup(secSoFar) ==
  /\ mt.exists
  /\ mt.setupWindow
  /\ LET m == complete_setup(Mt, secSoFar, date, disk.history)
     IN /\ InstallMt(m)
        /\ op' = [NoOp EXCEPT !.name = "complete_setup", !.err = m.err,
                              !.out = <<load_history(disk.history, date)>>]
  /\ UNCHANGED <<faceVars, disk, date>>

\* the entry of the setup window is written: the trace runs check_input
CheckInput(s) ==
  /\ mt.exists
  /\ mt.setupWindow
  /\ mt' = [mt EXCEPT !.setup = check_input([@ EXCEPT !.inputVar = s], now)]
  /\ op' = [NoOp EXCEPT !.name = "check_input", !.args = <<s>>]
  /\ UNCHANGED <<faceVars, DEFAULT_SETTINGS, disk, events, date>>

\* the OK button of the setup window, or Return in its entry
SetupDestroy ==
  /\ mt.exists
  /\ mt.setupWindow
  /\ LET m == SetupWindow_destroy(Mt, date, disk.history)
     IN /\ InstallMt(m)
        /\ op' = [NoOp EXCEPT !.name = "SetupWindow.destroy", !.err = m.err,
                              !.args = <<mt.setup.okButton = "normal">>,
                              !.out = <<mt.setup>>]
  /\ UNCHANGED <<faceVars, disk, date>>

\* what an operation finds: whether the timer is paused, whether an update
\* callback is pending, and the pending callbacks
Found ==
  [paused |-> mt.paused, updating |-> \E e \in events : e.fn = "update",
   events |-> events, secSoFar |-> mt.secSoFar]

\* the pause button is pressed
TogglePause ==
  /\ mt.exists
  /\ mt.paused => mt.secSoFar < MaxHalfSeconds
  /\ LET m == toggle_pause(Mt)
     IN /\ InstallMt(m)
        /\ op' = [NoOp EXCEPT !.name = "toggle_pause", !.err = m.err,
                              !.out = <<Found>>]
  /\ UNCHANGED <<faceVars, disk, date>>

\* the event loop runs a pending callback of the MoneyTimer
Fire(e) ==
  /\ mt.exists
  /\ e \in events
  /\ e.fn = "update" \/ (e.fn = "auto_unpause" /\ mt.paused)
       => mt.secSoFar < MaxHalfSeconds
  /\ LET m0 == [Mt EXCEPT !.events = @ \ {e}]
         m  == CASE e.fn = "update" -> update(m0)
                 [] e.fn = "auto_pause" -> auto_pause(m0)
                 [] OTHER -> auto_unpause(m0)
     IN /\ InstallMt(m)
        /\ op' = [NoOp EXCEPT !.name = e.fn, !.err = m.err, !.out = <<Found>>]
  /\ UNCHANGED <<faceVars, disk, date>>

\* the history button is pressed, the history window is closed
OnHistoryClick ==
  /\ mt.exists
  /\ LET m == on_history_click(Mt)
     IN /\ InstallMt(m)
        /\ op' = [NoOp EXCEPT !.name = "on_history_click", !.err = m.err]
  /\ UNCHANGED <<faceVars, disk, date>>

\* the settings button is pressed
OnSettingsClick ==
  /\ mt.exists
  /\ LET m == on_settings_click(Mt)
     IN /\ InstallMt(m)
        /\ op' = [NoOp EXCEPT !.name = "on_settings_click", !.err = m.err]
  /\ UNCHANGED <<faceVars, disk, date>>

\* the settings window is confirmed with valid entries: on_confirm_click
\* calls configure_settings(cfg)
ConfigureSettings(cfg) ==
  /\ mt.exists
  /\ mt.settingsOpen
  /\ LET m == configure_settings(Mt, cfg, now)
     IN /\ InstallMt(m)
        /\ op' = [NoOp EXCEPT !.name = "configure_settings", !.err = m.err,
                              !.out = <<cfg>>]
  /\ UNCHANGED <<faceVars, disk, date>>

\* the settings window is cancelled: SettingsWindow.destroy
CloseSettings ==
  /\ mt.exists
  /\ mt.settingsOpen
  /\ mt' = SettingsWindow_destroy(Mt).obj
  /\ op' = [NoOp EXCEPT !.name = "SettingsWindow.destroy"]
  /\ UNCHANGED <<faceVars, DEFAULT_SETTINGS, disk, events, date>>

\* the entries of the settings window are edited: the checkbox is toggled,
\* or s is set in an entry and the trace of the entry clips it; the entries
\* of the lunch times are disabled while the checkbox is off
Clip(s, n) == IF Len(s) > n THEN SubSeq(s, 1, n) ELSE s

EditEntries(e) ==
  /\ mt.exists
  /\ mt.settingsOpen
  /\ mt' = [mt EXCEPT !.entries = e]
  /\ op' = [NoOp EXCEPT !.name = "edit"]
  /\ UNCHANGED <<faceVars, DEFAULT_SETTINGS, disk, events, date>>

ToggleAutoLunch ==
  /\ mt.settingsOpen
  /\ EditEntries([mt.entries EXCEPT !.enabled = ~@])

EditStartTime(s) ==
  /\ mt.entries.enabled
  /\ EditEntries([mt.entries EXCEPT !.start = Clip(s, 5)])

EditStopTime(s) ==
  /\ mt.entries.enabled
  /\ EditEntries([mt.entries EXCEPT !.stop = Clip(s, 5)])

EditRate(s) ==
  /\ mt.settingsOpen
  /\ EditEntries([mt.entries EXCEPT !.rate = Clip(s, 6)])

EditGoal(i, s) ==
  /\ mt.settingsOpen
  /\ EditEntries([mt.entries EXCEPT !.goals[i] = Clip(s, 4)])

\* the confirm button of the settings window is pressed
OnConfirmClick ==
  /\ mt.exists
  /\ mt.settingsOpen
  /\ LET m == on_confirm_click(Mt, now)
     IN /\ InstallMt(m)
        /\ op' = [NoOp EXCEPT !.name = "on_confirm_click", !.err = m.err,
                              !.out = <<[entries |-> mt.entries,
                                         settings |-> mt.settings]>>]
  /\ UNCHANGED <<faceVars, disk, date>>

\* the MoneyTimer is destroyed
Destroy ==
  /\ mt.exists
  /\ LET d == destroy(Mt, disk)
     IN /\ InstallMt(d.m)
        /\ disk' = d.disk
        /\ op' = [NoOp EXCEPT !.name = "destroy", !.err = d.m.err,
                              !.out = <<[history |-> mt.history,
                                         settings |-> mt.settings]>>]
  /\ UNCHANGED <<faceVars, date>>

\* load_history called on its own
LoadHistory ==
  /\ op' = [NoOp EXCEPT !.name = "load_history",
                        !.out = <<load_history(disk.history, date)>>]
  /\ UNCHANGED faceVars
  /\ UNCHANGED moneyVars

----------------------------------------------------------------------------
(* The MoneyTimer: the inputs *)

Dict(pairs) == [k \in {p[1] : p \in pairs} |->
                  (CHOOSE p \in pairs : p[1] = k)[2]]

\* a lunch time [hour, minute]
LunchTime(h, m) == JList(<<JInt(h), JInt(m)>>)

\* stored settings: every key, with values of its own
CustomSettings ==
  [DEFAULT_SETTINGS_LITERAL EXCEPT
     !["autoLunchEnabled"] = JBool(TRUE),
     !["autoLunchStartTime"] = LunchTime(11, 30),
     !["autoLunchStopTime"] = LunchTime(12, 30),
     !["hourlyRate"] = JFloat(30000),
     !["Mon"] = JFloat(6500)]

SettingsFiles ==
  {Absent, Unparsable, Stored(JList(<<>>)), Stored(JInt(5)),
   Stored(JDict(<<>>)),
   Stored(JDict(CustomSettings)),
   Stored(JDict(Dict({<<"hourlyRate", JInt(30)>>, <<"Mon", JStr("8")>>,
                      <<"Sat", JNull>>, <<"Sun", JFloat(4000)>>}))),
   Stored(JDict(Dict({<<"autoLunchEnabled", JInt(1)>>,
                      <<"rate", JFloat(30000)>>}))),
   Stored(JDict(Dict({<<"autoLunchEnabled", JBool(TRUE)>>,
                      <<"autoLunchStartTime", JList(<<>>)>>}))),
   Stored(JDict(Dict({<<"autoLunchEnabled", JBool(TRUE)>>,
                      <<"autoLunchStartTime",
                        JList(<<JStr("12"), JStr("00")>>)>>}))),
   Stored(JDict(Dict({<<"autoLunchEnabled", JBool(TRUE)>>,
                      <<"autoLunchStopTime",
                        JList(<<JFloat(12500), JInt(0)>>)>>}))),
   Stored(JDict(Dict({<<"autoLunchStartTime", JList(<<JInt(12)>>)>>})))}

\* a record of the history
Record(y, m, d, wday, secSoFar, earnings, percent) ==
  JDict([year |-> y, mon |-> m, day |-> d, wday |-> wday,
         secSoFar |-> secSoFar, earnings |-> earnings, percent |-> percent])

\* d without the key
Without(d, key) == [k \in (DOMAIN d) \ {key} |-> d[k]]

\* records of the current date, well formed and not, and of earlier dates
TodayRecord ==
  Record(JInt(2016), JInt(7), JInt(4), JStr("Mon"), JFloat(3600000),
         JFloat(21500), JFloat(12505))
TodayNoPercent == JDict(Without(TodayRecord.map, "percent"))
FridayRecord ==
  Record(JInt(2016), JInt(7), JInt(1), JStr("Fri"), JFloat(28800000),
         JFloat(172000), JFloat(100000))
ThursdayRecord ==
  Record(JInt(2016), JInt(6), JInt(30), JStr("Thurs"), JFloat(14400500),
         JFloat(86000), JFloat(50001))
NoWeekday == JDict(Without(ThursdayRecord.map, "wday"))
IntSeconds ==
  JDict([FridayRecord.map EXCEPT !["secSoFar"] = JInt(28800)])
BoolYear ==
  JDict([FridayRecord.map EXCEPT !["year"] = JBool(TRUE)])

RecordPool ==
  {TodayRecord, TodayNoPercent, FridayRecord, ThursdayRecord, NoWeekday,
   IntSeconds, BoolYear}

\* the arrays of up to n records of the pool
RECURSIVE Arrays(_)
Arrays(n) ==
  IF n = 0 THEN {<<>>}
  ELSE Arrays(n - 1) \cup
       {Append(a, r) : a \in {b \in Arrays(n - 1) : Len(b) = n - 1},
                       r \in RecordPool}

HistoryFiles ==
  {Absent, Unparsable, Stored(JDict(<<>>)), Stored(JStr("")),
   Stored(JInt(3)), Stored(JStr("history"))}
    \cup {Stored(JList(a)) : a \in Arrays(MaxRecords)}

StartupHistoryFiles ==
  {Absent, Unparsable, Stored(JDict(<<>>)), Stored(JInt(3)),
   Stored(JList(<<FridayRecord, ThursdayRecord>>)),
   Stored(JList(<<TodayRecord, FridayRecord>>)),
   Stored(JList(<<TodayNoPercent, TodayRecord>>)),
   Stored(JList(<<IntSeconds>>))}

\* the dicts on_confirm_click hands to configure_settings, as the sequence
\* of their items: auto lunch off, a lunch break still to come, and one
\* that has begun
Goals ==
  <<<<"Mon", JFloat(6000)>>, <<"Tues", JFloat(8000)>>, <<"Wed", JFloat(8000)>>,
    <<"Thurs", JFloat(8000)>>, <<"Fri", JFloat(4000)>>, <<"Sat", JFloat(0)>>,
    <<"Sun", JFloat(0)>>>>

Configs ==
  {<<<<"autoLunchEnabled", JBool(FALSE)>>, <<"hourlyRate", JFloat(30000)>>>>
     \o Goals,
   <<<<"autoLunchEnabled", JBool(TRUE)>>,
     <<"autoLunchStartTime", LunchTime(12, 30)>>,
     <<"autoLunchStopTime", LunchTime(13, 0)>>,
     <<"hourlyRate", JFloat(21500)>>>> \o Goals,
   <<<<"autoLunchEnabled", JBool(TRUE)>>,
     <<"autoLunchStartTime", LunchTime(8, 0)>>,
     <<"autoLunchStopTime", LunchTime(9, 30)>>,
     <<"hourlyRate", JFloat(21500)>>>> \o Goals}

\* secSoFar of the setup window, in half seconds
SetupSeconds == {0, 2}

\* the ClockFace of main, and the program started at 09:00:00 on Monday
\* 2016-07-04, the two files being as given
Black == <<"#", "0", "0", "0", "0", "0", "0">>

MainCall ==
  <<Entry("size", PyInt(100)), Entry("smooth", PyBool(TRUE)),
    Entry("bg", PhotoImage(1)), Entry("handcolor", PyStr(Black)),
    Entry("markcolor", PyStr(Black))>>

Started(settingsFile, historyFile) ==
  /\ Constructed_at(MainCall, HMS(9, 0, 0), HMS(9, 0, 0))
  /\ mt = NoObject
  /\ DEFAULT_SETTINGS = DEFAULT_SETTINGS_LITERAL
  /\ disk = [settings |-> settingsFile, history |-> historyFile]
  /\ events = {}
  /\ date = [year |-> 2016, mon |-> 7, mday |-> 4, wday |-> 0]

InitStartup ==
  \E s \in SettingsFiles, h \in StartupHistoryFiles : Started(s, h)

NextStartup ==
  \/ Construct
  \/ \E secSoFar \in SetupSeconds : CompleteSetup(secSoFar)
  \/ OnHistoryClick
  \/ Destroy

SpecStartup == InitStartup /\ [][NextStartup]_vars

InitMoney ==
  \E s \in {Absent, Stored(JDict(CustomSettings))} : Started(s, Absent)

NextMoney ==
  \/ Construct
  \/ \E secSoFar \in SetupSeconds : CompleteSetup(secSoFar)
  \/ TogglePause
  \/ \E e \in events : Fire(e)
  \/ OnSettingsClick
  \/ \E cfg \in Configs : ConfigureSettings(cfg)
  \/ CloseSettings

SpecMoney == InitMoney /\ [][NextMoney]_vars

\* parse_time called on its own
ParseTime(s) ==
  /\ op' = [NoOp EXCEPT !.name = "parse_time", !.args = <<s>>,
                        !.out = <<parse_time(s)>>]
  /\ UNCHANGED faceVars
  /\ UNCHANGED moneyVars

\* the strings of up to n characters of the set
RECURSIVE Strings(_, _)
Strings(chars, n) ==
  IF n = 0 THEN {<<>>}
  ELSE Strings(chars, n - 1) \cup
       {Append(s, c) : s \in {t \in Strings(chars, n - 1) : Len(t) = n - 1},
                       c \in chars}

\* the strings given to parse_time: every string of up to MaxChars characters
\* of '1', '6' and ':', and strings with other characters
TimeStrings ==
  Strings({"1", "6", ":"}, MaxChars) \cup
  {<<"0", ":", "0", "0">>, <<"2", "3", ":", "5", "9">>,
   <<"2", "4", ":", "0", "0">>, <<"9", "9", ":", "6", "0">>,
   <<"8", ":", "6", "0">>, <<" ", "8", ":", "3", "0">>,
   <<"8", ":", "3", " ">>, <<"-", "1", ":", "3", "0">>,
   <<"-", "0", ":", "3", "0">>, <<"+", "8", ":", "3", "0">>,
   <<"8", ":", "-", "5">>, <<"a", "b", ":", "c", "d">>,
   <<"0", "8", ".", "3", "0">>, <<"0", "8", ":", "3", "0", "5">>}

InitParse == Started(Absent, Absent)

NextParse == \E s \in TimeStrings : ParseTime(s)

SpecParse == InitParse /\ [][NextParse]_vars

\* what is typed into the entries of the settings window
StartEntries == {<<"1", "x", ":", "0", "0">>}

StopEntries == {<<"1", "1", ":", "0", "0", "0">>}

RateEntries == {<<>>, <<"a", "b", "c">>}

GoalEntries == {<<"x">>}

InitSettings ==
  \E s \in {Absent, Stored(JDict(CustomSettings))} : Started(s, Absent)

NextSettings ==
  \/ Construct
  \/ CompleteSetup(0)
  \/ OnSettingsClick
  \/ ToggleAutoLunch
  \/ \E s \in StartEntries : EditStartTime(s)
  \/ \E s \in StopEntries : EditStopTime(s)
  \/ \E s \in RateEntries : EditRate(s)
  \/ \E s \in GoalEntries : EditGoal(1, s)
  \/ OnConfirmClick
  \/ CloseSettings

SpecSettings == InitSettings /\ [][NextSettings]_vars

\* what is written into the entry of the setup window
SetupEntries ==
  {<<>>, <<"9", ":", "0", "0">>, <<"0", "8", ":", "3", "0">>,
   <<"8", ":", "6", "0">>, <<"9", ":", "0", "1">>,
   <<"2", "3", ":", "5", "9">>, <<"2", "4", ":", "0", "0">>,
   <<"0", ":", "0", "0">>, <<" ", "8", ":", "3", "0">>,
   <<"8", ":", "3">>, <<"a", "b", ":", "c", "d">>,
   <<"0", "8", ":", "3", "0", "5">>}

\* the program started at 09:00:00 or at StartTime, the setup window open
InitSetup ==
  /\ \E t \in {HMS(9, 0, 0), StartTime} : Constructed_at(MainCall, t, t)
  /\ NoMoneyTimer

NextSetup ==
  \/ Construct
  \/ \E s \in SetupEntries : CheckInput(s)
  \/ AdvanceClock
  \/ SetupDestroy

SpecSetup == InitSetup /\ [][NextSetup]_vars

InitHistory == \E h \in HistoryFiles : Started(Absent, h)

NextHistory == LoadHistory

SpecHistory == InitHistory /\ [][NextHistory]_vars

----------------------------------------------------------------------------
(* What the claims are stated with *)

\* the characters of '#RRGGBB' in either letter case
HexChars == {"0", "1", "2", "3", "4", "5", "6", "7", "8", "9",
             "a", "b", "c", "d", "e", "f", "A", "B", "C", "D", "E", "F"}

IsHexColour(val) ==
  /\ val.kind = "str"
  /\ Len(val.str) = 7
  /\ val.str[1] = "#"
  /\ \A i \in 2..7 : val.str[i] \in HexChars

IsMarkStyle(val) == val \in {PyStr(TICKS), PyStr(ARABIC), PyStr(ROMAN)}

Numeric(val) == val.kind \in {"int", "float", "bool"}

\* the entry of the last config call that raised, and its option
FailedEntry == op.call[op.failedAt]
FailedOption == OptionOf(FailedEntry[1])

ConfigRaised == op.name = "config" /\ op.err # ""

\* config rejected the value given for an option: wrong type (TypeError) or
\* out of domain (ValueError)
Rejected ==
  /\ ConfigRaised
  /\ FailedOption # ""
  /\ op.err \in {"TypeError", "ValueError"}

\* the entries before entry k of a call that are about size
SizeEntriesBefore(call, k) == {i \in 1..(k - 1) : call[i][1] = "size"}

\* C1 (as claimed): when config rejects the value given for an option, the
\* stored value of that option is unchanged and no redraw of the face has
\* happened in that call, whatever entries precede it (size included).
C1_NoRedrawBeforeError ==
  Rejected => /\ configVars[FailedOption] = op.before
              /\ op.redraws = 0

\* C1 (amended): when config rejects the value given for an option, the
\* stored value of that option is unchanged and the deferred redraw of the
\* call has not run: the face was redrawn in that call exactly once per size
\* entry preceding the rejected one, by that entry's immediate resize.
C1_Rejected ==
  Rejected => /\ configVars[FailedOption] = op.before
              /\ op.redraws = Cardinality(SizeEntriesBefore(op.call, op.failedAt))
              /\ op.resizes = op.redraws

C1_Witness ==
  /\ Rejected
  /\ op.failedAt = 2
  /\ op.call[1][1] = "size"
  /\ FailedOption = "handcolor"
  /\ op.redraws = 1

\* an entry that config accepts: the option's rule of validation
ValidEntry(e) ==
  LET o == OptionOf(e[1])
      val == e[2]
  IN CASE o = "background"  -> \/ val.kind = "image"
                               \/ val.kind = "str" /\ TkColor(val.str)
       [] o = "handcolor"   -> IsHexColour(val)
       [] o = "markcolor"   -> IsHexColour(val)
       [] o = "marks"       -> IsMarkStyle(val)
       [] o = "size"        -> Numeric(val)
       [] o = "smooth"      -> val.kind = "bool"
       [] o = "update_rate" -> Numeric(val) /\ val.num > 0
       [] OTHER             -> FALSE

\* the first invalid entry of a call (one past its end when all are valid)
FirstInvalid(call) ==
  IF \A i \in 1..Len(call) : ValidEntry(call[i]) THEN Len(call) + 1
  ELSE CHOOSE k \in 1..Len(call) :
         /\ ~ValidEntry(call[k])
         /\ \A i \in 1..(k - 1) : ValidEntry(call[i])

\* the entries before entry k that give option o a value to store
StoringBefore(call, k, o) ==
  {i \in 1..(k - 1) : OptionOf(call[i][1]) = o /\ call[i][2].kind # "image"}

Max(S) == CHOOSE x \in S : \A y \in S : y <= x

\* C2: config processes the entries in order; it raises at the first invalid
\* entry (invalid value or unrecognized key); the entries before it are
\* applied to the stored configuration (the last one of an option wins) and
\* no entry from it on is.
C2_InOrder ==
  [][op'.name = "config" =>
       LET call == op'.call
           k == FirstInvalid(call)
       IN /\ (k <= Len(call)) = (op'.err # "")
          /\ op'.failedAt = (IF k <= Len(call) THEN k ELSE 0)
          /\ \A o \in Options :
               configVars'[o] =
                 IF StoringBefore(call, k, o) = {} THEN configVars[o]
                 ELSE call[Max(StoringBefore(call, k, o))][2]
    ]_vars

C2_Witness ==
  /\ ConfigRaised
  /\ Len(op.call) = 2
  /\ op.failedAt = 2
  /\ op.err = "KeyError"
  /\ op.call[1][1] = "handcolor"
  /\ configVars.handcolor = op.call[1][2]

\* an entry that would have been valid follows the one that raised
C2_WitnessAfter ==
  /\ ConfigRaised
  /\ Len(op.call) = 2
  /\ op.failedAt = 1
  /\ ValidEntry(op.call[2])
  /\ configVars[OptionOf(op.call[2][1])] # op.call[2][2]

\* C3 (as claimed): the stored size and update_rate are positive and the
\* stored background, handcolor and markcolor are '#' and six hex digits.
C3_Invariant ==
  /\ configVars.size.num > 0
  /\ configVars.update_rate.num > 0
  /\ IsHexColour(configVars.background)
  /\ IsHexColour(configVars.handcolor)
  /\ IsHexColour(configVars.markcolor)

\* C3 (amended): the stored update_rate is a positive number and the stored
\* handcolor and markcolor are '#' and six hex digits; the stored size is a
\* number of any sign and the stored background is a string that Tk takes
\* as a colour.
C3_Stored ==
  /\ Numeric(configVars.update_rate) /\ configVars.update_rate.num > 0
  /\ IsHexColour(configVars.handcolor)
  /\ IsHexColour(configVars.markcolor)
  /\ Numeric(configVars.size)
  /\ configVars.background.kind = "str"
  /\ TkColor(configVars.background.str)

C3_Witness ==
  /\ configVars.size.num <= 0
  /\ ~IsHexColour(configVars.background)
  /\ configVars.handcolor = PyStr(MixedHex)
  /\ configVars.markcolor = PyStr(MixedHex)

\* C4: whenever a config call has ended, by returning or by raising, the
\* hand colour, mark colour and mark style drawn on the face are the stored
\* ones.
C4_DrawnIsStored ==
  /\ canvas.handcolor = configVars.handcolor
  /\ canvas.markcolor = configVars.markcolor
  /\ canvas.marks = configVars.marks

\* C5: an entry for shape or wedge_size is never accepted: SQUARE, ROUND and
\* a numeric wedge_size in (0, 1] raise the not-implemented error, any other
\* shape and a numeric wedge_size outside (0, 1] raise a value error, and the
\* stored shape and wedge_size stay as they are.
C5_Unimplemented ==
  /\ configVars.shape = DEFAULT_CONFIG.shape
  /\ configVars.wedge_size = DEFAULT_CONFIG.wedge_size
  /\ op.name = "config" =>
       /\ \A i \in 1..Len(op.call) :
            op.call[i][1] \in {"shape", "wedge_size"} =>
              op.failedAt # 0 /\ op.failedAt <= i
       /\ (op.failedAt # 0 /\ FailedEntry[1] = "shape") =>
            op.err = IF FailedEntry[2] \in {PyStr(SQUARE), PyStr(ROUND)}
                       THEN "NotImplementedError" ELSE "ValueError"
       /\ (op.failedAt # 0 /\ FailedEntry[1] = "wedge_size"
            /\ Numeric(FailedEntry[2])) =>
            op.err = IF FailedEntry[2].num > 0 /\ FailedEntry[2].num <= 10
                       THEN "NotImplementedError" ELSE "ValueError"

C5_Witness ==
  /\ ConfigRaised
  /\ FailedEntry = Entry("shape", PyStr(ROUND))
  /\ op.err = "NotImplementedError"
  /\ configVars.shape = PyStr(SQUARE)

\* C6: config accepts a handcolor or markcolor value iff it is a string of
\* '#' and six hex digits in either case, and a marks value iff it is one
\* of TICKS, ARABIC, ROMAN; any other value raises and is not stored; the
\* stored marks value is one of the three styles and _init_face never
\* raises its 'Unexpected value for marks' error.
C6_ColoursAndMarks ==
  /\ IsMarkStyle(configVars.marks)
  /\ op.err # "UnexpectedMarks"
  /\ op.name = "config" =>
       \A i \in 1..Len(op.call) :
         LET o == OptionOf(op.call[i][1])
             val == op.call[i][2]
             reached == op.failedAt = 0 \/ i <= op.failedAt
             accepted == op.failedAt = 0 \/ i < op.failedAt
         IN (reached /\ o \in {"handcolor", "markcolor", "marks"}) =>
              /\ accepted = (IF o = "marks" THEN IsMarkStyle(val)
                                            ELSE IsHexColour(val))
              /\ ~accepted => /\ op.err \in {"TypeError", "ValueError"}
                              /\ configVars[o] = op.before

C6_Witness ==
  /\ op.name = "config"
  /\ op.err = ""
  /\ op.call = <<Entry("handcolor", PyStr(MixedHex))>>
  /\ configVars.handcolor = PyStr(MixedHex)
  /\ canvas.handcolor = PyStr(MixedHex)

\* C7: once config has applied value v for an option, cget of the option's
\* name or alias returns v (for background also when v is an image); cget of
\* an unknown string key raises KeyError, of a non-string key TypeError.
C7_CgetReturnsApplied ==
  op.name = "cget" =>
    IF op.key.kind # "str" THEN op.err = "TypeError"
    ELSE IF OptionOf(op.key.name) = "" THEN op.err = "KeyError"
    ELSE /\ op.err = ""
         /\ applied[OptionOf(op.key.name)] # None =>
              op.ret = applied[OptionOf(op.key.name)]

\* C8: from the end of construction on exactly one _tick is pending.
C8_OnePending == Len(pending) = 1

\* C9: _tick reschedules itself after 1000 / update_rate ms in smooth mode
\* and after one second otherwise.
C9_Delay ==
  (op.name = "tick" /\ op.err = "") =>
    op.delay = IF configVars.smooth.num # 0
                 THEN 10000 \div configVars.update_rate.num
                 ELSE 1000

\* C10: at every _tick the sub-second counter is reset to 0 if the second of
\* the wall clock differs from the second sampled at the previous _tick, and
\* is increased by the nominal interval otherwise.
C10_Counter ==
  [][op'.name = "tick" =>
       ms' = IF tm_sec(now) # tm_sec(prevTick) THEN 0
             ELSE ms + (10000 \div configVars.update_rate.num)
    ]_vars


----------------------------------------------------------------------------
(* C11: the hands a tick moves and the geometry it uses *)

\* the geometry _init_face derives from a size: <<mid, hrLen, minLen, secLen>>
GeometryOf(size) ==
  <<(size.num \div 2) + OFFSET, (size.num * 2) \div 10,
    (size.num * 3) \div 10, (size.num * 4) \div 10>>

\* C11: whenever _tick has run, the hand items it moved were on the canvas,
\* and the centre and the three hand lengths it used are the ones derived
\* from the stored size; the hands on the canvas start at that centre.
C11_TickUsesCurrent ==
  op.name = "tick" =>
    /\ op.moved
    /\ op.geom = GeometryOf(configVars.size)
    /\ canvas.hands
    /\ \A i \in 1..3 : LET h == canvas.handCoords[i] IN
         /\ h[1] = GeometryOf(configVars.size)[1]
         /\ h[2] = GeometryOf(configVars.size)[1]

\* a tick after the size was configured away from the default
C11_Witness ==
  /\ op.name = "tick"
  /\ op.moved
  /\ configVars.size # DEFAULT_CONFIG.size
  /\ op.geom = GeometryOf(configVars.size)

----------------------------------------------------------------------------
(* C12: the ranges of the sub-second count and of the hand angles *)

\* C12: in every state the sub-second count is within 0..999 and the hour,
\* minute and second angles are each at least 0 and less than a full turn,
\* with smooth on or off.
C12_InRange ==
  /\ ms \in 0..999
  /\ \A i \in 1..3 :
       /\ get_hand_angles(Self)[i] >= 0
       /\ get_hand_angles(Self)[i] < TURN

----------------------------------------------------------------------------
(* C13: the angles of the hands *)

\* C13: for every time sample the hour angle is a twelfth of a turn times
\* (hour mod 12 + minute/60 + second/3600), the minute angle a sixtieth of a
\* turn times (minute + second/60), and the second angle a sixtieth of a turn
\* times (second + ms/1000) when smooth is set and times second otherwise; at
\* 00:00:00 all three are 0, at 03:00:00 the hour angle is a quarter turn, at
\* 00:30:00 the minute angle is a half turn, and at 06:00:00 without smooth
\* the hour angle is a half turn and the other two are 0.
C13_Angles ==
  op.name = "angles" =>
    LET hour   == time \div 3600
        minute == (time % 3600) \div 60
        second == time % 60
        smooth == configVars.smooth = PyBool(TRUE)
        a      == op.angles
    IN /\ 12 * a[1] = TURN * (hour % 12) + (TURN \div 60) * minute
                                            + (TURN \div 3600) * second
       /\ 60 * a[2] = TURN * minute + (TURN \div 60) * second
       /\ smooth => 60 * a[3] = TURN * second + (TURN \div 1000) * ms
       /\ ~smooth => 60 * a[3] = TURN * second
       /\ (time = HMS(0, 0, 0) /\ (~smooth \/ ms = 0)) => a = <<0, 0, 0>>
       /\ time = HMS(3, 0, 0) => 4 * a[1] = TURN
       /\ time = HMS(0, 30, 0) => 2 * a[2] = TURN
       /\ (time = HMS(6, 0, 0) /\ ~smooth) =>
            /\ 2 * a[1] = TURN
            /\ a[2] = 0
            /\ a[3] = 0

\* the angles asked for at 15:00:00 with smooth set and a sub-second count
C13_Witness ==
  /\ op.name = "angles"
  /\ time = HMS(15, 0, 0)
  /\ configVars.smooth = PyBool(TRUE)
  /\ ms > 0
  /\ 4 * op.angles[1] = TURN

----------------------------------------------------------------------------
(* C14: the line of a hand *)

\* the segment from (x, y) to (x + r sin theta, y - r cos theta)
Segment(x, y, r, theta) ==
  <<x, y, x + (r * sin(theta)) \div 1000, y - (r * cos(theta)) \div 1000>>

----------------------------------------------------------------------------
(* C15: toggle_pause and the pending update callback *)

\* an update callback is pending
UpdatePending == \E e \in events : e.fn = "update"

\* C15: toggle_pause on a running timer cancels the pending update callback
\* and pauses the timer; no update callback is pending while the timer is
\* paused and none runs in a paused timer; where toggle_pause finds a timer
\* that is not paused and has no update callback pending, it cancels
\* nothing and does not raise.
C15_PauseCancels ==
  /\ mt.paused => ~UpdatePending
  /\ op.name = "update" => ~op.out[1].paused
  /\ op.name = "toggle_pause" /\ ~op.out[1].paused /\ op.out[1].updating
       => mt.paused /\ ~UpdatePending /\ op.err = ""
  /\ op.name = "toggle_pause" /\ ~op.out[1].paused /\ ~op.out[1].updating
       => events = op.out[1].events /\ op.err = ""

\* toggle_pause has paused a running timer whose update callback was pending
C15_Witness ==
  /\ op.name = "toggle_pause"
  /\ ~op.out[1].paused
  /\ op.out[1].updating
  /\ op.out[1].secSoFar > 0
  /\ mt.paused

----------------------------------------------------------------------------
(* C16: load_settings on a stored JSON object *)

\* the settings file holds a JSON object
StoredObject == disk.settings.state = "json" /\ disk.settings.json.kind = "dict"

\* the stored value of the key is missing or not of the type of its default
Reset(stored, key) ==
  \/ key \notin DOMAIN stored
  \/ stored[key].kind # DEFAULT_SETTINGS_LITERAL[key].kind

\* C16: load_settings on a stored JSON object returns a mapping that has
\* every key of the default table; a key that is missing from the stored
\* object, or whose stored value is not of the type of its default, has the
\* default value, and every other stored key has its stored value.
C16_Merged ==
  op.name = "__init__" /\ StoredObject
    => LET stored == disk.settings.json.map
           ret    == op.out[1]
       IN /\ DOMAIN DEFAULT_SETTINGS_LITERAL \subseteq DOMAIN ret
          /\ \A key \in DOMAIN DEFAULT_SETTINGS_LITERAL :
               Reset(stored, key) => ret[key] = DEFAULT_SETTINGS_LITERAL[key]
          /\ \A key \in DOMAIN stored :
               ~(key \in DOMAIN DEFAULT_SETTINGS_LITERAL /\ Reset(stored, key))
                 => key \in DOMAIN ret /\ ret[key] = stored[key]

\* load_settings has merged a stored object that lacks a key, holds a value
\* of another type than its default, a value of the type of its default
\* and a key the default table has not
C16_Witness ==
  /\ op.name = "__init__"
  /\ StoredObject
  /\ LET stored == disk.settings.json.map
     IN /\ "Mon" \in DOMAIN stored /\ Reset(stored, "Mon")
        /\ "Sun" \in DOMAIN stored /\ ~Reset(stored, "Sun")
        /\ op.out[1]["Sun"] # DEFAULT_SETTINGS_LITERAL["Sun"]
        /\ "Tues" \notin DOMAIN stored
  /\ mt.exists
  /\ mt.settings = op.out[1]

----------------------------------------------------------------------------
(* C17: the default-settings table *)

\* C17 (as claimed): after any load_settings, from the file or falling back
\* to the defaults, and any configure_settings calls, DEFAULT_SETTINGS holds
\* its original values.
C17_DefaultsFixed == DEFAULT_SETTINGS = DEFAULT_SETTINGS_LITERAL

----------------------------------------------------------------------------
(* C18: load_history and records that violate the schema *)

\* the history file holds a JSON array
StoredArray == disk.history.state = "json" /\ disk.history.json.kind = "list"

\* the record has every field of the schema, each of its type
WellFormed(rec) ==
  /\ rec.kind = "dict"
  /\ \A key \in DOMAIN HISTORY_FORMAT :
       /\ key \in DOMAIN rec.map
       /\ rec.map[key].kind \in HISTORY_FORMAT[key]

\* C18 (as claimed): load_history returns the empty history whenever a
\* record of the stored array lacks a field of the schema or has a field of
\* the wrong type, and every record of a history it returns fits the schema.
C18_AllOrNothing ==
  op.name = "load_history" /\ StoredArray
    => LET stored == disk.history.json.items
           ret    == op.out[1]
       IN /\ (\E i \in 1..Len(stored) : ~WellFormed(stored[i]))
               => ret = JList(<<>>)
          /\ \A j \in 1..Len(ret.items) : WellFormed(ret.items[j])

----------------------------------------------------------------------------
(* C19: the stored content and the errors at startup *)

\* C19 (as claimed): whatever the settings file and the history file hold,
\* neither the construction of the MoneyTimer (load_settings,
\* make_lunch_events), nor complete_setup (load_history), nor the display of
\* the loaded history raises.
C19_Recovers ==
  \/ op.name \in {"__init__", "complete_setup"}
  \/ op.name = "on_history_click" /\ mt.history.kind # "null"
  => op.err = ""

----------------------------------------------------------------------------
(* C20: load_history and the records of the current date *)

\* the record is of the date d
OnDate(rec, d) ==
  /\ JEq(rec.map["year"], d.year)
  /\ JEq(rec.map["mon"], d.mon)
  /\ JEq(rec.map["day"], d.mday)

NotToday(rec) == ~OnDate(rec, date)

\* C20 (as claimed): for a stored array of valid records, load_history
\* returns the stored records that are not of the current date, in their
\* stored order.
C20_IgnoresToday ==
  op.name = "load_history" /\ StoredArray
    /\ (\A i \in 1..Len(disk.history.json.items) :
          WellFormed(disk.history.json.items[i]))
    => op.out[1] = JList(SelectSeq(disk.history.json.items, NotToday))

----------------------------------------------------------------------------
(* C21: destroy saves the settings and the history *)

\* the record of the session that ends: its date, its day and its seconds
SessionRecord(rec) ==
  /\ rec.kind = "dict"
  /\ DOMAIN rec.map = DOMAIN HISTORY_FORMAT
  /\ rec.map["year"] = JInt(date.year)
  /\ rec.map["mon"] = JInt(date.mon)
  /\ rec.map["day"] = JInt(date.mday)
  /\ rec.map["wday"] = JStr(DAYS[date.wday + 1])
  /\ rec.map["secSoFar"] = JFloat(mt.secSoFar * 500)

\* C21 (as claimed): whenever the MoneyTimer is destroyed, setup completed
\* or not, destroy does not raise, the settings file holds the settings,
\* the history file holds the history with the record of the session as its
\* first entry, and the widget is destroyed.
C21_DestroySaves ==
  op.name = "destroy"
    => /\ op.err = ""
       /\ ~mt.exists
       /\ disk.settings = Stored(JDict(op.out[1].settings))
       /\ disk.history.state = "json"
       /\ disk.history.json.kind = "list"
       /\ Len(disk.history.json.items) = Len(op.out[1].history.items) + 1
       /\ SessionRecord(Head(disk.history.json.items))
       /\ Tail(disk.history.json.items) = op.out[1].history.items

----------------------------------------------------------------------------
(* C22: configure_settings and the lunch events *)

\* the pending calls of auto_pause and of auto_unpause
LunchEvents == {e \in events : e.fn \in {"auto_pause", "auto_unpause"}}

\* C22 (as claimed): at most one auto_pause and one auto_unpause event are
\* pending at any time; after configure_settings has returned, the pending
\* lunch events are those it has created for the new settings, and none is
\* pending when auto lunch is disabled in the new settings.
C22_LunchEvents ==
  /\ Cardinality({e \in events : e.fn = "auto_pause"}) <= 1
  /\ Cardinality({e \in events : e.fn = "auto_unpause"}) <= 1
  /\ op.name = "configure_settings" /\ op.err = ""
       => /\ {e.id : e \in LunchEvents}
               \subseteq {mt.startLunchEvt, mt.endLunchEvt}
          /\ mt.settings["autoLunchEnabled"].num = 0 => LunchEvents = {}

----------------------------------------------------------------------------
(* C26: the update callback after setup *)

\* complete_setup has returned
SetupDone == mt.exists /\ ~mt.setupWindow /\ mt.startDay # ""

\* after setup has completed, no update callback is pending while the timer
\* is paused, and exactly one is pending while it is not paused
C26_OneUpdate ==
  SetupDone =>
    Cardinality({e \in events : e.fn = "update"}) = IF mt.paused THEN 0 ELSE 1

\* after setup has completed, secSoFar does not change in a step that finds
\* the timer paused and leaves it paused
C26_PausedKeepsSeconds ==
  [][SetupDone /\ mt.paused /\ mt'.paused => mt'.secSoFar = mt.secSoFar]_vars

\* C26: after setup has completed, under every interleaving of toggle_pause,
\* auto_pause, auto_unpause and update: while the timer is paused no update
\* callback is pending and secSoFar does not change, and while it is not
\* paused exactly one update callback is pending.
C26_UpdateChain == []C26_OneUpdate /\ C26_PausedKeepsSeconds

\* after setup, auto_pause has paused a timer that has counted seconds
C26_Witness ==
  /\ SetupDone
  /\ mt.paused
  /\ op.name = "auto_pause"
  /\ ~op.out[1].paused
  /\ mt.secSoFar > 1

----------------------------------------------------------------------------
(* C24: parse_time *)

\* the string is h:mm or hh:mm, h and m being digits
TimeForm(s) ==
  /\ Len(s) \in {4, 5}
  /\ s[Len(s) - 2] = ":"
  /\ \A i \in (1..Len(s)) \ {Len(s) - 2} : IsDigit(s[i])

HourOf(s) == Decimal(SubSeq(s, 1, Len(s) - 3))

MinuteOf(s) == Decimal(SubSeq(s, Len(s) - 1, Len(s)))

\* the string denotes a time of day
TimeOfDay(s) == TimeForm(s) /\ HourOf(s) <= 23 /\ MinuteOf(s) <= 59

\* C24 (as claimed): parse_time returns [hour, minute] for the strings of the
\* form h:mm or hh:mm that denote a time of day, with 0 <= hour <= 23 and
\* 0 <= minute <= 59, and None for every other string.
C24_ParseTime ==
  op.name = "parse_time"
    => op.out[1] = IF TimeOfDay(op.args[1])
                     THEN JList(<<JInt(HourOf(op.args[1])),
                                  JInt(MinuteOf(op.args[1]))>>)
                     ELSE JNull

----------------------------------------------------------------------------
(* C23: on_confirm_click and invalid entries *)

\* the entry is empty or a number
NumericEntry(s) == s = <<>> \/ float(s).ok

\* every entry of the settings window is valid: with the checkbox on, both
\* lunch times are parsed and the stop is after the start; the hourly rate
\* and the goals are numbers
EntriesValid(e) ==
  /\ e.enabled
       => /\ parse_time(e.start) # JNull
          /\ parse_time(e.stop) # JNull
          /\ DaySeconds(parse_time(e.stop)).n > DaySeconds(parse_time(e.start)).n
  /\ NumericEntry(e.rate)
  /\ \A i \in 1..Len(DAYS) : NumericEntry(e.goals[i])

\* C23 (as claimed): on_confirm_click changes the settings and closes the
\* window only when every entry is valid; with an invalid entry it does not
\* raise, shows an invalid label, leaves the settings as they were and keeps
\* the window open.
C23_ConfirmValidates ==
  op.name = "on_confirm_click"
    => IF EntriesValid(op.out[1].entries)
         THEN op.err = "" => ~mt.settingsOpen
         ELSE /\ op.err = ""
              /\ mt.labels # {}
              /\ mt.settings = op.out[1].settings
              /\ mt.settingsOpen

----------------------------------------------------------------------------
(* C25: the setup window closes on a valid entry only *)

\* the entry is empty, or a time of day that is not later than the time t
ValidStart(s, t) ==
  \/ s = <<>>
  \/ TimeOfDay(s) /\ HMS(HourOf(s), MinuteOf(s), 0) <= t

\* the seconds from the time of the entry to the time t
SecondsSince(s, t) ==
  IF s = <<>> THEN 0 ELSE t - HMS(HourOf(s), MinuteOf(s), 0)

\* C25 (as claimed): SetupWindow.destroy calls complete_setup and closes the
\* window only if the entry is empty or an h:mm / hh:mm time of day not later
\* than the current time, and then passes 0 for an empty entry and otherwise
\* the seconds from the entered time to the time the entry was checked; on an
\* invalid entry it leaves the window open, shows the invalid label and does
\* not call complete_setup.
C25_SetupCloses ==
  op.name = "SetupWindow.destroy"
    => LET w == op.out[1]
       IN IF ValidStart(w.inputVar, w.checked)
            THEN op.args[1]
                   => /\ w.secSoFar = SecondsSince(w.inputVar, w.checked)
                      /\ ~mt.setupWindow
            ELSE /\ ~op.args[1]
                 /\ mt.setupWindow
                 /\ mt.setup.invalidLabel
========================================================================
